---- MODULE Spec2Model ----
(***************************************************************************)
(* Model of src/src/arxiv_rag.py: the hybrid (BM25 + embedding) retriever  *)
(* over a directory of markdown files, backed by one SQLite store.         *)
(*                                                                         *)
(* Texts are sequences of lines, queries are sequences of lexemes, content *)
(* fingerprints are injective tags of the hashed text, scores are exact    *)
(* rationals <<numerator, denominator>>.                                   *)
(***************************************************************************)
EXTENDS Integers, Sequences, FiniteSets, TLC

(***************************************************************************)
(* Bounds of the model.                                                    *)
(***************************************************************************)
MaxId == 4          \* largest AUTOINCREMENT id the model hands out
MaxTime == 1        \* largest value of the wall clock, in seconds
BatchSize == 2      \* batch_size of a caching pass, scaled down from 64

(***************************************************************************)
(* Generic helpers.                                                        *)
(***************************************************************************)
Max2(a, b) == IF a >= b THEN a ELSE b

Min2(a, b) == IF a <= b THEN a ELSE b

Abs(a) == IF a < 0 THEN -a ELSE a

RECURSIVE Gcd(_, _)
Gcd(a, b) == IF b = 0 THEN a ELSE Gcd(b, a % b)

\* Exact rationals <<n, d>> with d > 0, kept in lowest terms.
Rat(n, d) ==
    LET s == IF d < 0 THEN -1 ELSE 1
        g == Gcd(Abs(n), Abs(d))
    IN  <<(s * n) \div g, (s * d) \div g>>

RInt(n) == <<n, 1>>

RAdd(p, q) == Rat(p[1] * q[2] + q[1] * p[2], p[2] * q[2])

RSub(p, q) == Rat(p[1] * q[2] - q[1] * p[2], p[2] * q[2])

RMul(p, q) == Rat(p[1] * q[1], p[2] * q[2])

\* p / q for q # 0
RDiv(p, q) == Rat(p[1] * q[2], p[2] * q[1])

RLe(p, q) == p[1] * q[2] <= q[1] * p[2]

RLt(p, q) == p[1] * q[2] < q[1] * p[2]

RZero == RInt(0)

ROne == RInt(1)

\* Set of keys of a map and the sorted sequence of a finite set of integers.
RECURSIVE SortedSeq(_)
SortedSeq(S) ==
    IF S = {} THEN <<>>
    ELSE LET m == CHOOSE x \in S : \A y \in S : x <= y
         IN  <<m>> \o SortedSeq(S \ {m})

RECURSIVE SumSeq(_)
SumSeq(s) == IF s = <<>> THEN 0 ELSE Head(s) + SumSeq(Tail(s))

(***************************************************************************)
(* Markdown texts: a text is a sequence of lines.                          *)
(***************************************************************************)
H1Lines == {"# T"}

H2Lines == {"## A", "## B"}

BodyLines == {"x", "y"}

BlankLine == ""

Lines == H1Lines \cup H2Lines \cup BodyLines \cup {BlankLine}

\* group(1).strip() of the heading regexes
HeadingText(l) ==
    CASE l = "# T" -> "T"
      [] l = "## A" -> "A"
      [] l = "## B" -> "B"
      [] OTHER -> l

\* str.strip() on a sequence of lines: drop leading and trailing blank lines
RECURSIVE LStripLines(_)
LStripLines(t) ==
    IF t # <<>> /\ Head(t) = BlankLine THEN LStripLines(Tail(t)) ELSE t

RECURSIVE RStripLines(_)
RStripLines(t) ==
    IF t # <<>> /\ t[Len(t)] = BlankLine
    THEN RStripLines(SubSeq(t, 1, Len(t) - 1))
    ELSE t

StripLines(t) == RStripLines(LStripLines(t))

\* _sha256_text: the fingerprint of a text, collision-free
Sha256Text(t) == <<"sha256", t>>

\* re.search(r"^#\s+(.+)$"): the first top-level heading, or the filename
DocTitle(content, filename) ==
    IF \E i \in 1..Len(content) : content[i] \in H1Lines
    THEN HeadingText(content[CHOOSE i \in 1..Len(content) :
                        /\ content[i] \in H1Lines
                        /\ \A j \in 1..(i - 1) : content[j] \notin H1Lines])
    ELSE filename

\* re.split(r"(?=^##\s+)"): cut before every second-level heading line; the
\* piece before the first cut is kept even when it is empty
RECURSIVE SplitH2(_, _)
SplitH2(rest, cur) ==
    IF rest = <<>> THEN <<cur>>
    ELSE IF Head(rest) \in H2Lines /\ cur # <<>>
         THEN <<cur>> \o SplitH2(Tail(rest), <<Head(rest)>>)
         ELSE SplitH2(Tail(rest), Append(cur, Head(rest)))

\* SplitSections without the piece before the first second-level heading
SplitSectionsNoIntro(content) ==
    IF \E i \in 1..Len(content) : content[i] \in H2Lines
    THEN LET first == CHOOSE i \in 1..Len(content) :
                          /\ content[i] \in H2Lines
                          /\ \A j \in 1..(i - 1) : content[j] \notin H2Lines
         IN  SplitH2(SubSeq(content, first + 1, Len(content)),
                     <<content[first]>>)
    ELSE SplitH2(content, <<>>)

SplitSections(content) ==
    IF content # <<>> /\ Head(content) \in H2Lines
    THEN <<<<>>>> \o SplitH2(Tail(content), <<Head(content)>>)
    ELSE SplitH2(content, <<>>)

\* re.search(r"^##\s+(.+)$") inside one section
SectionTitle(section) ==
    IF \E i \in 1..Len(section) : section[i] \in H2Lines
    THEN HeadingText(section[CHOOSE i \in 1..Len(section) :
                        /\ section[i] \in H2Lines
                        /\ \A j \in 1..(i - 1) : section[j] \notin H2Lines])
    ELSE "Introduction"

\* the two lines of the provenance header, f"[From: {filename}]" and
\* f"# {doc_title}"
FromLine(filename) ==
    CASE filename = "a.md" -> "[From: a.md]"
      [] filename = "b.md" -> "[From: b.md]"
      [] OTHER -> "[From: ?]"

TitleLine(doc_title) ==
    CASE doc_title = "T" -> "# T"
      [] doc_title = "a.md" -> "# a.md"
      [] doc_title = "b.md" -> "# b.md"
      [] OTHER -> "# ?"

\* f"[From: {filename}]\n# {doc_title}\n\n{section}".strip()
ChunkContent(filename, doc_title, body) ==
    StripLines(<<FromLine(filename), TitleLine(doc_title), BlankLine>> \o body)

RECURSIVE ChunkSections(_, _, _)
ChunkSections(sections, filename, doc_title) ==
    IF sections = <<>> THEN <<>>
    ELSE LET section == StripLines(Head(sections))
             rest == ChunkSections(Tail(sections), filename, doc_title)
         IN  IF section = <<>> THEN rest
             ELSE <<[content |-> ChunkContent(filename, doc_title, section),
                     section_title |-> SectionTitle(section)]>> \o rest

chunk_markdown_by_h2(content, filename) ==
    LET doc_title == DocTitle(content, filename)
        chunks == ChunkSections(SplitSections(content), filename, doc_title)
    IN  IF chunks # <<>> THEN chunks
        ELSE <<[content |-> ChunkContent(filename, doc_title, content),
                section_title |-> "Full"]>>

(***************************************************************************)
(* The corpus directory, the facade's configuration and the SQLite store.  *)
(***************************************************************************)
\* the *.md files of the corpus directory, in sorted() order
FileOrder == <<"a.md", "b.md">>

Files == {FileOrder[i] : i \in 1..Len(FileOrder)}

\* the texts the corpus files are written with: an unsectioned document, a
\* two-section document and the same with its second section edited
CorpusTexts ==
    { <<"x">>,
      <<"## A", "x", "## B", "x">>,
      <<"## A", "x", "## B", "x", "y">> }

\* the content of a file whose read_text(encoding="utf-8") raises
Unreadable == <<"\\xff">>

FileContents == CorpusTexts \cup {Unreadable}

NoFile == [present |-> FALSE, text |-> <<>>]

FileStates == {NoFile} \cup [present : {TRUE}, text : FileContents]

Models == {"m1", "m2"}

\* keyword_weight and semantic_weight: the defaults 0.6 / 0.4 and a pair
\* that does not sum to 1
WeightPairs == {<<Rat(6, 10), Rat(4, 10)>>, <<Rat(1, 2), Rat(2, 1)>>}

DefaultConfig ==
    [enable_semantic |-> FALSE, api_key |-> FALSE, http |-> TRUE,
     embedding_model |-> "m1",
     keyword_weight |-> Rat(6, 10), semantic_weight |-> Rat(4, 10)]

\* __init__: the configurations a facade is constructed with.  api_key says
\* whether openrouter_api_key is non-empty, http whether the requests module
\* was importable.  A field the code never reads under a configuration is
\* held at its default.
Configs ==
    { c \in [enable_semantic : BOOLEAN, api_key : BOOLEAN, http : BOOLEAN,
             embedding_model : Models,
             keyword_weight : {w[1] : w \in WeightPairs},
             semantic_weight : {w[2] : w \in WeightPairs}] :
        /\ <<c.keyword_weight, c.semantic_weight>> \in WeightPairs
        /\ ~c.enable_semantic => c = DefaultConfig
        /\ ~c.api_key => /\ c.http
                         /\ c.embedding_model = DefaultConfig.embedding_model
                         /\ c.keyword_weight = DefaultConfig.keyword_weight
        /\ ~c.http => /\ c.embedding_model = DefaultConfig.embedding_model
                      /\ c.keyword_weight = DefaultConfig.keyword_weight }

VARIABLES
    docs_dir_exists,   \* self.docs_dir.exists()
    files,             \* the corpus files: Files -> FileStates
    now,               \* the wall clock read by _now_s()
    db_exists,         \* self.db_path.exists()
    has_tables,        \* the schema of ensure_index has been created
    rag_chunks,        \* rows of table rag_chunks
    rag_chunks_fts,    \* entries of the FTS5 index rag_chunks_fts
    rag_sources,       \* rows of table rag_sources
    rag_embeddings,    \* rows of table rag_embeddings
    seq,               \* sqlite_sequence of rag_chunks (AUTOINCREMENT)
    op,                \* the last operation: the facade's configuration,
                       \* the call and what it did
    ret,               \* what the last retrieve() returned
    call,              \* a direct call of one of the pure helpers
    result             \* what that call returned

fsVars == <<docs_dir_exists, files>>

storeVars == <<db_exists, has_tables, rag_chunks, rag_chunks_fts, rag_sources,
               rag_embeddings, seq>>

vars == <<docs_dir_exists, files, now, db_exists, has_tables, rag_chunks,
          rag_chunks_fts, rag_sources, rag_embeddings, seq, op, ret, call,
          result>>

pureVars == <<call, result>>

\* the store as one value
Store ==
    [db_exists |-> db_exists, has_tables |-> has_tables,
     chunks |-> rag_chunks, fts |-> rag_chunks_fts, sources |-> rag_sources,
     embeddings |-> rag_embeddings, seq |-> seq]

EmptyStore ==
    [db_exists |-> FALSE, has_tables |-> FALSE, chunks |-> {}, fts |-> {},
     sources |-> {}, embeddings |-> {}, seq |-> 0]

\* sqlite3.connect creates the database file when it is missing
Connect(st) == [st EXCEPT !.db_exists = TRUE]

\* the CREATE TABLE / VIRTUAL TABLE / TRIGGER ... IF NOT EXISTS statements
CreateSchema(st) == [Connect(st) EXCEPT !.has_tables = TRUE]

(***************************************************************************)
(* _index_docs_incremental                                                 *)
(***************************************************************************)
\* DeleteChunksOf without the WHERE clause: every chunk row is deleted
DeleteAllChunks(st, name) == [st EXCEPT !.chunks = {}, !.fts = {}]

\* DeleteChunksOf without the DELETE: the old rows of the file stay
DeleteNoChunks(st, name) == st

\* DeleteChunksOf without trigger rag_chunks_ad: the FTS entries stay
DeleteRowsOnly(st, name) ==
    [st EXCEPT !.chunks = {r \in st.chunks : r.source_file # name}]

\* DELETE FROM rag_chunks WHERE source_file = ?; trigger rag_chunks_ad takes
\* the deleted rows out of the FTS index by rowid
DeleteChunksOf(st, name) ==
    LET gone == {c.id : c \in {r \in st.chunks : r.source_file = name}}
    IN  [st EXCEPT !.chunks = {r \in st.chunks : r.id \notin gone},
                   !.fts = {e \in st.fts : e.rowid \notin gone}]

\* InsertChunk without AUTOINCREMENT: the rowid is one more than the largest
\* rowid in the table
InsertChunkMaxRowid(st, name, ch, indexed_at) ==
    LET id == IF st.chunks = {} THEN 1
              ELSE 1 + CHOOSE m \in {r.id : r \in st.chunks} :
                           \A r \in st.chunks : r.id <= m
    IN  [st EXCEPT
           !.seq = id,
           !.chunks = @ \cup {[id |-> id, source_file |-> name,
                               section_title |-> ch.section_title,
                               content |-> ch.content,
                               content_hash |-> Sha256Text(ch.content),
                               indexed_at |-> indexed_at]},
           !.fts = @ \cup {[rowid |-> id, content |-> ch.content,
                            source_file |-> name,
                            section_title |-> ch.section_title]}]

\* INSERT INTO rag_chunks ...; trigger rag_chunks_ai adds the FTS entry
InsertChunk(st, name, ch, indexed_at) ==
    LET id == st.seq + 1
    IN  [st EXCEPT
           !.seq = id,
           !.chunks = @ \cup {[id |-> id, source_file |-> name,
                               section_title |-> ch.section_title,
                               content |-> ch.content,
                               content_hash |-> Sha256Text(ch.content),
                               indexed_at |-> indexed_at]},
           !.fts = @ \cup {[rowid |-> id, content |-> ch.content,
                            source_file |-> name,
                            section_title |-> ch.section_title]}]

RECURSIVE InsertChunks(_, _, _, _)
InsertChunks(st, name, chunks, indexed_at) ==
    IF chunks = <<>> THEN st
    ELSE InsertChunks(InsertChunk(st, name, Head(chunks), indexed_at),
                      name, Tail(chunks), indexed_at)

\* INSERT INTO rag_sources ... ON CONFLICT(source_file) DO UPDATE
UpsertSource(st, name, file_hash, indexed_at) ==
    [st EXCEPT !.sources =
        {r \in @ : r.source_file # name}
        \cup {[source_file |-> name, file_hash |-> file_hash,
               indexed_at |-> indexed_at]}]

\* IndexOneDoc without the fingerprint comparison: every readable file is
\* re-indexed on every pass
IndexOneDocNoSkip(st, name, f, t) ==
    IF f.text = Unreadable THEN st
    ELSE UpsertSource(
           InsertChunks(DeleteChunksOf(st, name), name,
                        chunk_markdown_by_h2(f.text, name), t),
           name, Sha256Text(f.text), t)

\* IndexOneDoc purging what is stored for a file it cannot read
IndexOneDocPurge(st, name, f, t) ==
    IF f.text = Unreadable
    THEN [DeleteChunksOf(st, name) EXCEPT
            !.sources = {r \in @ : r.source_file # name}]
    ELSE LET file_hash == Sha256Text(f.text)
         IN  IF \E r \in st.sources :
                    r.source_file = name /\ r.file_hash = file_hash
             THEN st
             ELSE UpsertSource(
                    InsertChunks(DeleteChunksOf(st, name), name,
                                 chunk_markdown_by_h2(f.text, name), t),
                    name, file_hash, t)

\* the body of the loop over md_files for one file
IndexOneDoc(st, name, f, t) ==
    IF f.text = Unreadable THEN st
    ELSE LET file_hash == Sha256Text(f.text)
         IN  IF \E r \in st.sources :
                    r.source_file = name /\ r.file_hash = file_hash
             THEN st
             ELSE UpsertSource(
                    InsertChunks(DeleteChunksOf(st, name), name,
                                 chunk_markdown_by_h2(f.text, name), t),
                    name, file_hash, t)

RECURSIVE IndexDocsFrom(_, _, _, _)
IndexDocsFrom(st, i, fs, t) ==
    IF i > Len(FileOrder) THEN st
    ELSE LET name == FileOrder[i]
         IN  IndexDocsFrom(IF fs[name].present
                           THEN IndexOneDoc(st, name, fs[name], t) ELSE st,
                           i + 1, fs, t)

\* index_docs_incremental pruning what is stored for files that are gone
IndexDocsPruning(st, fs, t) ==
    LET gone == {name \in Files : ~fs[name].present}
        kept == {r \in st.chunks : r.source_file \notin gone}
        pruned == [st EXCEPT
                     !.chunks = kept,
                     !.fts = {e \in @ : e.source_file \notin gone},
                     !.sources = {r \in @ : r.source_file \notin gone}]
    IN  IndexDocsFrom(Connect(pruned), 1, fs, t)

index_docs_incremental(st, fs, t) ==
    IF \A name \in Files : ~fs[name].present THEN st
    ELSE IndexDocsFrom(Connect(st), 1, fs, t)

(***************************************************************************)
(* The embedding provider and the embedding cache.                         *)
(***************************************************************************)
\* The vector the provider computes for a text under a model.  The provider
\* is an external service: its vectors are a fixed function of model and
\* text, its failures and malformed answers are nondeterministic.
Embed(model, text) ==
    LET hasX == \E i \in 1..Len(text) : text[i] = "x"
        hasY == \E i \in 1..Len(text) : text[i] = "y"
        v == CASE hasX /\ hasY -> <<3, 4>>
               [] hasX /\ ~hasY -> <<1, 0>>
               [] ~hasX /\ hasY -> <<0, 1>>
               [] OTHER -> <<0, 0>>
    IN  IF model = "m1" THEN v ELSE v \o <<0>>

\* The lists _openrouter_embed can return for a batch when the HTTP call
\* succeeds: one vector per text, a list whose last item carries no
\* embedding, or a list one item short.
ProviderAnswers(model, texts) ==
    LET full == [i \in 1..Len(texts) |-> Embed(model, texts[i])]
    IN  {full, Append(SubSeq(full, 1, Len(texts) - 1), <<>>),
         SubSeq(full, 1, Len(texts) - 1)}

\* struct.pack(f"{len(vec)}f", *vec): the blob holds one float32 per
\* component; the components of the model's vectors are small integers,
\* which a float32 holds exactly
pack_f32(vec) == [i \in 1..Len(vec) |-> vec[i]]

unpack_f32(blob, dim) ==
    IF blob = <<>> \/ dim <= 0 THEN <<>> ELSE SubSeq(blob, 1, dim)

\* PendingIds without the join on rag_embeddings: every chunk is pending
PendingAll(st, model) == SortedSeq({r.id : r \in st.chunks})

\* the SELECT ... LEFT JOIN of _ensure_embeddings_cached: ids of the chunks
\* with no embedding row for the model or with one of another fingerprint,
\* in rowid order
PendingIds(st, model) ==
    SortedSeq({c.id : c \in
        {r \in st.chunks :
            \/ ~\E e \in st.embeddings : e.chunk_id = r.id /\ e.model = model
            \/ \E e \in st.embeddings :
                  /\ e.chunk_id = r.id
                  /\ e.model = model
                  /\ e.content_hash # r.content_hash}})

ChunkById(st, id) == CHOOSE r \in st.chunks : r.id = id

\* INSERT INTO rag_embeddings ... ON CONFLICT(chunk_id) DO UPDATE
UpsertEmbedding(st, chunk_id, model, emb, content_hash, created_at) ==
    [st EXCEPT !.embeddings =
        {e \in @ : e.chunk_id # chunk_id}
        \cup {[chunk_id |-> chunk_id, model |-> model, dim |-> Len(emb),
               embedding |-> pack_f32(emb), content_hash |-> content_hash,
               created_at |-> created_at]}]

\* StoreBatch without the INSERT: nothing of the batch is written
StoreNothing(st, batch, embeddings, model, created_at) == st

\* for (chunk_id, _content, content_hash), emb in zip(batch, embeddings)
RECURSIVE StoreBatch(_, _, _, _, _)
StoreBatch(st, batch, embeddings, model, created_at) ==
    IF batch = <<>> \/ embeddings = <<>> THEN st
    ELSE LET emb == Head(embeddings)
             c == ChunkById(st, Head(batch))
             st1 == IF Len(emb) <= 0 THEN st
                    ELSE UpsertEmbedding(st, c.id, model, emb, c.content_hash,
                                         created_at)
         IN  StoreBatch(st1, Tail(batch), Tail(embeddings), model, created_at)

\* one provider call as the operation log records it: the chunk ids and the
\* texts sent, whether the call succeeded and the vectors it returned
Call(ids, texts, ok, vectors) ==
    [ids |-> ids, texts |-> texts, ok |-> ok, vectors |-> vectors]

\* what a caching pass did: it was not attempted, raised, stopped at a
\* failed call, or went through every batch
PassResult(st, calls, pass) ==
    [st |-> st, calls |-> calls, raised |-> pass = "raised", pass |-> pass]

\* The loop over the batches of pending: the set of ways it can end, each
\* with the store it leaves (committed on every exit of the with block) and
\* the provider calls it made.  The provider is reached only when the HTTP
\* client exists; a call that fails ends the pass.
RECURSIVE EmbedBatches(_, _, _, _, _)
EmbedBatches(st, pending, c, t, calls) ==
    IF pending = <<>> THEN {PassResult(st, calls, "complete")}
    ELSE LET n == Min2(BatchSize, Len(pending))
             batch == SubSeq(pending, 1, n)
             rest == SubSeq(pending, n + 1, Len(pending))
             texts == [i \in 1..n |-> ChunkById(st, batch[i]).content]
         IN  IF ~c.http
             THEN {PassResult(st, calls, "aborted")}
             ELSE {PassResult(st, Append(calls, Call(batch, texts, FALSE, <<>>)),
                              "aborted")}
                  \cup UNION
                    { EmbedBatches(
                        StoreBatch(st, batch, embeddings, c.embedding_model, t),
                        rest, c, t,
                        Append(calls, Call(batch, texts, TRUE, embeddings)))
                      : embeddings \in ProviderAnswers(c.embedding_model, texts) }

\* _ensure_embeddings_cached: the set of its outcomes; the SELECT raises
\* sqlite3.OperationalError when the tables are missing
ensure_embeddings_cached(st, c, t, calls) ==
    IF ~c.enable_semantic \/ ~c.api_key
    THEN {PassResult(st, calls, "skipped")}
    ELSE IF ~st.has_tables
         THEN {PassResult(Connect(st), calls, "raised")}
         ELSE EmbedBatches(Connect(st), PendingIds(st, c.embedding_model),
                           c, t, calls)

(***************************************************************************)
(* ensure_index                                                            *)
(***************************************************************************)
ensure_index(st, dir, fs, c, t) ==
    IF ~dir THEN {PassResult(st, <<>>, "skipped")}
    ELSE LET indexed == index_docs_incremental(CreateSchema(st), fs, t)
         IN  IF c.enable_semantic
             THEN ensure_embeddings_cached(indexed, c, t, <<>>)
             ELSE {PassResult(indexed, <<>>, "skipped")}

(***************************************************************************)
(* Queries and the lexical index.                                          *)
(***************************************************************************)
\* A query string is a sequence of lexemes: a blank, a punctuation mark, or
\* a run of word characters; adjacent word lexemes form one longer word.
Blank == " "

WordLexemes == {"x", "y", "OR"}

Lexemes == {Blank, "!"} \cup WordLexemes

\* the FTS5 query keywords the lexeme alphabet can spell
FtsKeywords == {<<"OR">>}

\* str.strip() on a query
RECURSIVE LStrip(_)
LStrip(q) == IF q # <<>> /\ Head(q) = Blank THEN LStrip(Tail(q)) ELSE q

RECURSIVE RStrip(_)
RStrip(q) ==
    IF q # <<>> /\ q[Len(q)] = Blank
    THEN RStrip(SubSeq(q, 1, Len(q) - 1))
    ELSE q

\* Strip without the stripping
NoStrip(q) == q

Strip(q) == RStrip(LStrip(q))

\* re.findall(r"[A-Za-z0-9_]+", query): the maximal runs of word lexemes
RECURSIVE FindTerms(_, _)
FindTerms(q, cur) ==
    IF q = <<>> THEN (IF cur = <<>> THEN <<>> ELSE <<cur>>)
    ELSE IF Head(q) \in WordLexemes
         THEN FindTerms(Tail(q), Append(cur, Head(q)))
         ELSE (IF cur = <<>> THEN <<>> ELSE <<cur>>) \o FindTerms(Tail(q), <<>>)

MaxTerms == 25

\* safe_fts_query without the slice: every term is joined
SafeQueryAllTerms(q) == FindTerms(q, <<>>)

\* _safe_fts_query: the terms that " OR ".join(terms[:25]) joins; the empty
\* sequence stands for the empty string
safe_fts_query(q) ==
    LET terms == FindTerms(q, <<>>)
    IN  SubSeq(terms, 1, Min2(MaxTerms, Len(terms)))

\* FTS5 rejects the joined query when a term is one of its keywords
FtsSyntaxError(terms) == \E i \in 1..Len(terms) : terms[i] \in FtsKeywords

\* occurrences of a term among the tokens of an indexed entry: the words of
\* the lexeme alphabet occur in a chunk only as its body lines
Occurrences(entry, term) ==
    IF Len(term) # 1 THEN 0
    ELSE Cardinality({i \in 1..Len(entry.content) : entry.content[i] = term[1]})

\* SQLite's bm25(): negative, more negative for a better match, better for
\* more occurrences and for a shorter entry.  The ranking function belongs
\* to SQLite; this is a stand-in with those properties.
RECURSIVE Bm25(_, _)
Bm25(entry, terms) ==
    IF terms = <<>> THEN 0
    ELSE Bm25(entry, Tail(terms))
         - Occurrences(entry, Head(terms)) * (10 - Len(entry.content))

FtsMatches(entry, terms) ==
    \E i \in 1..Len(terms) : Occurrences(entry, terms[i]) > 0

\* SELECT rowid, bm25(...) FROM rag_chunks_fts WHERE ... MATCH ? LIMIT ?
\* as the dict bm25_hits; the rows come in rowid order
FtsSearch(st, terms, bm25_limit) ==
    LET matching == SortedSeq({e.rowid : e \in
                        {x \in st.fts : FtsMatches(x, terms)}})
        kept == {matching[i] : i \in 1..(IF bm25_limit < 0 THEN Len(matching)
                                         ELSE Min2(bm25_limit, Len(matching)))}
    IN  [id \in kept |->
            RInt(Bm25(CHOOSE e \in st.fts : e.rowid = id, terms))]

\* the bm25_hits of retrieve: empty without terms and on OperationalError
LexicalHits(st, query, bm25_limit) ==
    LET terms == safe_fts_query(query)
    IN  IF terms = <<>> \/ ~st.has_tables \/ FtsSyntaxError(terms)
        THEN <<>>
        ELSE FtsSearch(st, terms, bm25_limit)

(***************************************************************************)
(* Semantic search, normalisation and fusion.                              *)
(***************************************************************************)
Dot(a, b) == SumSeq([i \in 1..Len(a) |-> a[i] * b[i]])

\* math.sqrt on the squared norms of the model's vectors, all perfect squares
ISqrt(n) == CHOOSE r \in 0..n : r * r = n

cosine_similarity(a, b) ==
    IF a = <<>> \/ b = <<>> \/ Len(a) # Len(b) THEN RZero
    ELSE LET na == ISqrt(Dot(a, a))
             nb == ISqrt(Dot(b, b))
         IN  IF na = 0 \/ nb = 0 THEN RZero ELSE Rat(Dot(a, b), na * nb)

\* SortDesc without the sorting: the records stay in the order given
NoSort(s) == s

\* list.sort(key=..., reverse=True) on a sequence of [key, val] records:
\* stable, descending by key
RECURSIVE InsertDesc(_, _)
InsertDesc(sorted, x) ==
    IF sorted = <<>> THEN <<x>>
    ELSE IF RLt(Head(sorted).key, x.key)
         THEN <<x>> \o sorted
         ELSE <<Head(sorted)>> \o InsertDesc(Tail(sorted), x)

RECURSIVE SortDesc(_)
SortDesc(s) ==
    IF s = <<>> THEN <<>>
    ELSE InsertDesc(SortDesc(SubSeq(s, 1, Len(s) - 1)), s[Len(s)])

\* s[:n] of Python
Prefix(s, n) ==
    SubSeq(s, 1, IF n >= 0 THEN Min2(n, Len(s)) ELSE Max2(Len(s) + n, 0))

\* the semantic_hits of retrieve for a non-empty query vector: every cached
\* embedding of the model scored against the query, the best semantic_limit
SemanticHits(st, q_emb, model, semantic_limit) ==
    LET ids == SortedSeq({e.chunk_id : e \in
                    {x \in st.embeddings : x.model = model}})
        Row(id) == CHOOSE e \in st.embeddings : e.chunk_id = id
        scored == [i \in 1..Len(ids) |->
                     [val |-> ids[i],
                      key |-> cosine_similarity(q_emb,
                           unpack_f32(Row(ids[i]).embedding, Row(ids[i]).dim))]]
        kept == Prefix(SortDesc(scored), semantic_limit)
    IN  [id \in {kept[i].val : i \in 1..Len(kept)} |->
            (CHOOSE p \in {kept[i] : i \in 1..Len(kept)} : p.val = id).key]

RMin(m) == CHOOSE v \in {m[k] : k \in DOMAIN m} :
               \A k \in DOMAIN m : RLe(v, m[k])

RMax(m) == CHOOSE v \in {m[k] : k \in DOMAIN m} :
               \A k \in DOMAIN m : RLe(m[k], v)

\* normalize_bm25 without the sign flip: the least negative score is best
NormalizeNoFlip(scores) ==
    IF DOMAIN scores = {} THEN <<>>
    ELSE LET mn == RMin(scores)
             mx == RMax(scores)
         IN  IF mn = mx THEN [k \in DOMAIN scores |-> ROne]
             ELSE [k \in DOMAIN scores |->
                      RDiv(RSub(scores[k], mn), RSub(mx, mn))]

normalize_bm25(scores) ==
    IF DOMAIN scores = {} THEN <<>>
    ELSE LET mn == RMin(scores)
             mx == RMax(scores)
         IN  IF mn = mx THEN [k \in DOMAIN scores |-> ROne]
             ELSE [k \in DOMAIN scores |->
                      RDiv(RSub(mx, scores[k]), RSub(mx, mn))]

normalize_01(scores) ==
    IF DOMAIN scores = {} THEN <<>>
    ELSE LET mn == RMin(scores)
             mx == RMax(scores)
         IN  IF mn = mx THEN [k \in DOMAIN scores |-> ROne]
             ELSE [k \in DOMAIN scores |->
                      RDiv(RSub(scores[k], mn), RSub(mx, mn))]

\* dict.get(cid, 0.0)
GetOr0(m, k) == IF k \in DOMAIN m THEN m[k] ELSE RZero

\* FinalScore without the single-signal fallbacks: always the weighted sum
FinalScoreBlend(bm25_norm, sem_norm, cid, keyword_weight, semantic_weight) ==
    RAdd(RMul(keyword_weight, GetOr0(bm25_norm, cid)),
         RMul(semantic_weight, GetOr0(sem_norm, cid)))

\* FinalScore taking, for a chunk present in one candidate set only, the
\* present signal unweighted
FinalScorePresent(bm25_norm, sem_norm, cid, keyword_weight, semantic_weight) ==
    IF cid \notin DOMAIN sem_norm THEN GetOr0(bm25_norm, cid)
    ELSE IF cid \notin DOMAIN bm25_norm THEN sem_norm[cid]
    ELSE RAdd(RMul(keyword_weight, bm25_norm[cid]),
              RMul(semantic_weight, sem_norm[cid]))

\* the final score of one chunk
FinalScore(bm25_norm, sem_norm, cid, keyword_weight, semantic_weight) ==
    LET b == GetOr0(bm25_norm, cid)
        s == GetOr0(sem_norm, cid)
    IN  IF DOMAIN sem_norm = {} THEN b
        ELSE IF DOMAIN bm25_norm = {} THEN s
        ELSE RAdd(RMul(keyword_weight, b), RMul(semantic_weight, s))

\* the RAGHit built for one fetched chunk row
MakeHit(r, bm25_norm, sem_norm, c) ==
    [chunk_id |-> r.id, source_file |-> r.source_file,
     section_title |-> r.section_title, content |-> r.content,
     bm25_score |-> GetOr0(bm25_norm, r.id),
     semantic_score |-> GetOr0(sem_norm, r.id),
     final_score |-> FinalScore(bm25_norm, sem_norm, r.id,
                                c.keyword_weight, c.semantic_weight)]

\* lines 478-519: fetch the candidate rows in rowid order, score them, sort
\* by final score and keep top_k
RankHits(st, bm25_hits, semantic_hits, c, top_k) ==
    LET candidate_ids == DOMAIN bm25_hits \cup DOMAIN semantic_hits
        found == SortedSeq({r.id : r \in
                     {x \in st.chunks : x.id \in candidate_ids}})
        bm25_norm == normalize_bm25(bm25_hits)
        sem_norm == normalize_01(semantic_hits)
        hits == [i \in 1..Len(found) |->
                    MakeHit(ChunkById(st, found[i]), bm25_norm, sem_norm, c)]
        keyed == [i \in 1..Len(hits) |->
                    [val |-> hits[i], key |-> hits[i].final_score]]
        sorted == SortDesc(keyed)
    IN  Prefix([i \in 1..Len(sorted) |-> sorted[i].val], top_k)

(***************************************************************************)
(* format_context, on the lengths of the strings involved.                 *)
(***************************************************************************)
\* len() of the strings of the model
StrLen(str) ==
    CASE str \in {"", "?"} -> 0
      [] str \in {"x", "y", "A", "B", "T"} -> 1
      [] str = "# T" -> 3
      [] str \in {"## A", "## B", "a.md", "b.md", "Full"} -> 4
      [] str \in {"# a.md", "# b.md"} -> 6
      [] str \in {"[From: a.md]", "[From: b.md]", "Introduction"} -> 12
      [] OTHER -> 0

\* len() of a text: its lines and the newlines between them
TextLen(t) ==
    IF t = <<>> THEN 0
    ELSE SumSeq([i \in 1..Len(t) |-> StrLen(t[i])]) + (Len(t) - 1)

RECURSIVE DecimalDigits(_)
DecimalDigits(n) == IF n < 10 THEN 1 ELSE 1 + DecimalDigits(n \div 10)

\* len(f"{score:.2f}"): sign, integer part of the rounded value, ".dd"
ScoreStrLen(score) ==
    LET n == Abs(score[1])
        d == score[2]
        hundredths == (200 * n + d) \div (2 * d)
    IN  (IF score[1] < 0 THEN 1 ELSE 0) + DecimalDigits(hundredths \div 100) + 3

\* len(f"[{i}] {source_file} :: {section_title} (score={final_score:.2f})")
HeaderLen(i, source_len, title_len, score_len) ==
    1 + DecimalDigits(i) + 2 + source_len + 4 + title_len + 8 + score_len + 1

MinBody == 200

Reserve == 5

EllipsisLen == 3

\* FormatFrom stopping only when no room at all is left for a body
RECURSIVE FormatFromAnyRoom(_, _, _, _, _)
FormatFromAnyRoom(i, used, header_lens, body_lens, max_chars) ==
    IF i > Len(header_lens) THEN <<>>
    ELSE LET avail == max_chars - used - header_lens[i] - Reserve
         IN  IF avail <= EllipsisLen THEN <<>>
             ELSE LET cut == body_lens[i] > avail
                      body == IF cut THEN avail ELSE body_lens[i]
                      entry == header_lens[i] + 1 + body + 1
                  IN  <<[header |-> header_lens[i], body |-> body, cut |-> cut]>>
                      \o FormatFromAnyRoom(i + 1, used + entry, header_lens,
                                           body_lens, max_chars)

\* The loop of format_context over hits i..n, given the headers' lengths and
\* the lengths of the stripped bodies: the emitted entries, each with the
\* length of its header and of its (possibly cut) body.
RECURSIVE FormatFrom(_, _, _, _, _)
FormatFrom(i, used, header_lens, body_lens, max_chars) ==
    IF i > Len(header_lens) THEN <<>>
    ELSE LET avail == max_chars - used - header_lens[i] - Reserve
         IN  IF avail <= MinBody THEN <<>>
             ELSE LET cut == body_lens[i] > avail
                      body == IF cut
                              THEN (avail - EllipsisLen) + EllipsisLen
                              ELSE body_lens[i]
                      entry == header_lens[i] + 1 + body + 1
                  IN  <<[header |-> header_lens[i], body |-> body, cut |-> cut]>>
                      \o FormatFrom(i + 1, used + entry, header_lens, body_lens,
                                    max_chars)

\* len("\n".join(parts).strip()): the entries, the newlines joining them,
\* less the trailing newlines that strip() removes (two after an empty body)
JoinedLen(parts) ==
    IF parts = <<>> THEN 0
    ELSE SumSeq([i \in 1..Len(parts) |-> parts[i].header + 1 + parts[i].body + 1])
         + (Len(parts) - 1)
         - (IF parts[Len(parts)].body > 0 THEN 1 ELSE 2)

\* format_context: the emitted entries and the length of the returned string
format_context(header_lens, body_lens, max_chars) ==
    LET parts == FormatFrom(1, 0, header_lens, body_lens, max_chars)
    IN  [parts |-> parts, len |-> JoinedLen(parts)]

EmptyContext == [parts |-> <<>>, len |-> 0]

\* format_context on the hits of retrieve
FormatHits(hits, max_chars) ==
    format_context(
        [i \in 1..Len(hits) |->
            HeaderLen(i, StrLen(hits[i].source_file),
                      StrLen(hits[i].section_title),
                      ScoreStrLen(hits[i].final_score))],
        [i \in 1..Len(hits) |-> TextLen(StripLines(hits[i].content))],
        max_chars)

(***************************************************************************)
(* retrieve                                                                *)
(***************************************************************************)
DefaultTopK == 8

DefaultMaxChars == 4000

DefaultBm25Limit == 100

DefaultSemanticLimit == 100

\* parameters of one retrieve() call
DefaultParams ==
    [top_k |-> DefaultTopK, max_chars |-> DefaultMaxChars,
     bm25_limit |-> DefaultBm25Limit, semantic_limit |-> DefaultSemanticLimit]

\* an outcome of retrieve: the store it leaves, the provider calls made,
\* how its caching pass ended, whether it raised, whether it opened the
\* store and ran ensure_index, the two raw score maps and the returned pair
Outcome(st, calls, pass, opened, ensured, bm25_hits, semantic_hits, context, hits) ==
    [st |-> st, calls |-> calls, pass |-> pass, raised |-> pass = "raised",
     opened |-> opened, ensured |-> ensured, bm25_hits |-> bm25_hits,
     semantic_hits |-> semantic_hits, context |-> context, hits |-> hits]

\* lines 473-522: merge, rank and format
FinishRetrieve(st, calls, pass, ensured, bm25_hits, semantic_hits, c, p) ==
    IF DOMAIN bm25_hits \cup DOMAIN semantic_hits = {}
    THEN Outcome(st, calls, pass, TRUE, ensured, bm25_hits, semantic_hits,
                 EmptyContext, <<>>)
    ELSE LET hits == RankHits(st, bm25_hits, semantic_hits, c, p.top_k)
         IN  Outcome(st, calls, pass, TRUE, ensured, bm25_hits, semantic_hits,
                     FormatHits(hits, p.max_chars), hits)

\* QueryEmbeddings falling back to a fixed query vector when the client is
\* missing or the call fails
QueryEmbeddingsFallback(query, c, calls) ==
    {[q_emb |-> <<1, 0>>, calls |-> calls]}

\* self._openrouter_embed([query])[0] under try/except: the query vectors
\* the call can yield, each with the calls made so far; the empty vector
\* stands for a failed or malformed answer
QueryEmbeddings(query, c, calls) ==
    IF ~c.http THEN {[q_emb |-> <<>>, calls |-> calls]}
    ELSE {[q_emb |-> <<>>,
           calls |-> Append(calls, Call(<<>>, <<query>>, FALSE, <<>>))]}
         \cup {[q_emb |-> IF a = <<>> THEN <<>> ELSE a[1],
                calls |-> Append(calls, Call(<<>>, <<query>>, TRUE, a))]
               : a \in ProviderAnswers(c.embedding_model, <<query>>)}

\* lines 420-522 for one outcome of the optional ensure_index
AfterEnsure(st0, query, ensured, c, t, p, calls) ==
    LET st == Connect(st0)
        bm25_hits == LexicalHits(st, query, p.bm25_limit)
    IN  IF c.enable_semantic /\ c.api_key
        THEN UNION
               { IF pass.raised
                 THEN {Outcome(pass.st, pass.calls, "raised", TRUE, ensured,
                               bm25_hits, <<>>, EmptyContext, <<>>)}
                 ELSE { FinishRetrieve(pass.st, qe.calls, pass.pass, ensured,
                            bm25_hits,
                            IF qe.q_emb # <<>>
                            THEN SemanticHits(pass.st, qe.q_emb,
                                     c.embedding_model, p.semantic_limit)
                            ELSE <<>>,
                            c, p)
                        : qe \in QueryEmbeddings(query, c, pass.calls) }
                 : pass \in ensure_embeddings_cached(st, c, t, calls) }
        ELSE {FinishRetrieve(st, calls, "skipped", ensured, bm25_hits, <<>>,
                             c, p)}

\* retrieve running ensure_index() on every call, store present or not
RetrieveAlwaysEnsure(q, st, dir, fs, c, t, p) ==
    LET query == Strip(IF q.is_none THEN <<>> ELSE q.str)
    IN  IF query = <<>>
        THEN {Outcome(st, <<>>, "skipped", FALSE, FALSE, <<>>, <<>>,
                      EmptyContext, <<>>)}
        ELSE UNION { AfterEnsure(e.st, query, TRUE, c, t, p, e.calls)
                     : e \in ensure_index(st, dir, fs, c, t) }

\* retrieve(query, top_k=, max_chars=, bm25_limit=, semantic_limit=): the
\* set of its outcomes
retrieve(q, st, dir, fs, c, t, p) ==
    LET query == Strip(IF q.is_none THEN <<>> ELSE q.str)
    IN  IF query = <<>>
        THEN {Outcome(st, <<>>, "skipped", FALSE, FALSE, <<>>, <<>>,
                      EmptyContext, <<>>)}
        ELSE IF ~st.db_exists
             THEN UNION { AfterEnsure(e.st, query, TRUE, c, t, p, e.calls)
                          : e \in ensure_index(st, dir, fs, c, t) }
             ELSE AfterEnsure(st, query, FALSE, c, t, p, <<>>)

(***************************************************************************)
(* The state machine: the environment edits the corpus and moves the       *)
(* clock; a caller constructs a facade over the store and calls a method.  *)
(***************************************************************************)
\* the query arguments the caller passes: None, blank strings, a string
\* without a word, one-word and two-word strings, and strings carrying an
\* FTS5 keyword
Queries ==
    { [is_none |-> TRUE, str |-> <<>>],
      [is_none |-> FALSE, str |-> <<>>],
      [is_none |-> FALSE, str |-> <<Blank>>],
      [is_none |-> FALSE, str |-> <<"!">>],
      [is_none |-> FALSE, str |-> <<Blank, "x">>],
      [is_none |-> FALSE, str |-> <<"y">>],
      [is_none |-> FALSE, str |-> <<"x", "!", "y">>],
      [is_none |-> FALSE, str |-> <<"x", Blank, "OR">>] }

NoQuery == [is_none |-> TRUE, str |-> <<>>]

\* the record of the last operation: the method, the facade's
\* configuration, the query and the keyword parameters of retrieve, the
\* provider calls made, how the caching pass ended, whether the call raised,
\* opened the store, ran ensure_index, and whether it repeats the operation
\* before it (same method, same facade)
OpRecord(name, c, query, calls, pass, raised, opened, ensured) ==
    [name |-> name, cfg |-> c, query |-> query, params |-> DefaultParams,
     calls |-> calls, pass |-> pass, raised |-> raised, opened |-> opened,
     ensured |-> ensured, again |-> op.name = name /\ op.cfg = c]

EnvOp ==
    [name |-> "edit", cfg |-> DefaultConfig, query |-> NoQuery,
     params |-> DefaultParams, calls |-> <<>>,
     pass |-> "skipped", raised |-> FALSE, opened |-> FALSE,
     ensured |-> FALSE, again |-> FALSE]

NoRet ==
    [returned |-> FALSE, context |-> EmptyContext, hits |-> <<>>,
     bm25_hits |-> <<>>, semantic_hits |-> <<>>]

SetStore(st) ==
    /\ db_exists' = st.db_exists
    /\ has_tables' = st.has_tables
    /\ rag_chunks' = st.chunks
    /\ rag_chunks_fts' = st.fts
    /\ rag_sources' = st.sources
    /\ rag_embeddings' = st.embeddings
    /\ seq' = st.seq

NoCall == [fn |-> "none"]

NoResult == [done |-> FALSE]

\* the project before any facade has touched it: no store, an empty corpus
\* directory or none
InitProject ==
    /\ docs_dir_exists \in BOOLEAN
    /\ files = [f \in Files |-> NoFile]
    /\ now = 0
    /\ db_exists = FALSE
    /\ has_tables = FALSE
    /\ rag_chunks = {}
    /\ rag_chunks_fts = {}
    /\ rag_sources = {}
    /\ rag_embeddings = {}
    /\ seq = 0
    /\ op = EnvOp
    /\ ret = NoRet

Init ==
    /\ InitProject
    /\ call = NoCall
    /\ result = NoResult

\* the environment creates the corpus directory
MakeDocsDir ==
    /\ ~docs_dir_exists
    /\ docs_dir_exists' = TRUE
    /\ op' = EnvOp
    /\ ret' = NoRet
    /\ UNCHANGED <<files, now, storeVars, pureVars>>

\* the environment creates a corpus file or replaces its content
WriteFile(f, text) ==
    /\ docs_dir_exists
    /\ files[f] # [present |-> TRUE, text |-> text]
    /\ files' = [files EXCEPT ![f] = [present |-> TRUE, text |-> text]]
    /\ op' = EnvOp
    /\ ret' = NoRet
    /\ UNCHANGED <<docs_dir_exists, now, storeVars, pureVars>>

\* the environment deletes a corpus file
DeleteFile(f) ==
    /\ files[f].present
    /\ files' = [files EXCEPT ![f] = NoFile]
    /\ op' = EnvOp
    /\ ret' = NoRet
    /\ UNCHANGED <<docs_dir_exists, now, storeVars, pureVars>>

\* a second passes
Tick ==
    /\ now < MaxTime
    /\ now' = now + 1
    /\ UNCHANGED <<fsVars, storeVars, op, ret, pureVars>>

\* a facade configured with c: ensure_index()
EnsureIndex(c) ==
    /\ \E r \in ensure_index(Store, docs_dir_exists, files, c, now) :
        /\ r.st.seq <= MaxId
        /\ SetStore(r.st)
        /\ op' = OpRecord("ensure_index", c, NoQuery, r.calls, r.pass,
                          r.raised, docs_dir_exists, TRUE)
        /\ ret' = NoRet
        /\ UNCHANGED <<fsVars, now, pureVars>>

\* a facade configured with c: one caching pass, _ensure_embeddings_cached()
EnsureEmbeddingsCached(c) ==
    /\ \E r \in ensure_embeddings_cached(Store, c, now, <<>>) :
        /\ SetStore(r.st)
        /\ op' = OpRecord("ensure_embeddings_cached", c, NoQuery, r.calls,
                          r.pass, r.raised, r.pass # "skipped", FALSE)
        /\ ret' = NoRet
        /\ UNCHANGED <<fsVars, now, pureVars>>

\* a facade configured with c: retrieve(q, top_k=, max_chars=, bm25_limit=,
\* semantic_limit=)
RetrieveWith(c, q, p) ==
    /\ \E r \in retrieve(q, Store, docs_dir_exists, files, c, now, p) :
        /\ r.st.seq <= MaxId
        /\ SetStore(r.st)
        /\ op' = [OpRecord("retrieve", c, q, r.calls, r.pass, r.raised,
                           r.opened, r.ensured) EXCEPT !.params = p]
        /\ ret' = [returned |-> ~r.raised, context |-> r.context,
                   hits |-> r.hits, bm25_hits |-> r.bm25_hits,
                   semantic_hits |-> r.semantic_hits]
        /\ UNCHANGED <<fsVars, now, pureVars>>

\* a facade configured with c: retrieve(q) with the default parameters
Retrieve(c, q) == RetrieveWith(c, q, DefaultParams)

\* the caller is done with the last call and drops what it returned
DropResult ==
    /\ op # EnvOp
    /\ op' = EnvOp
    /\ ret' = NoRet
    /\ UNCHANGED <<fsVars, now, storeVars, pureVars>>

\* the configuration with semantic retrieval on and every capability present
SemanticConfig(model) ==
    [DefaultConfig EXCEPT !.enable_semantic = TRUE, !.api_key = TRUE,
                          !.embedding_model = model]

(***************************************************************************)
(* Indexing: the corpus changes freely, a keyword-only facade indexes it.  *)
(***************************************************************************)
NextIndex ==
    \/ MakeDocsDir
    \/ \E f \in Files, text \in FileContents : WriteFile(f, text)
    \/ \E f \in Files : DeleteFile(f)
    \/ Tick
    \/ EnsureIndex(DefaultConfig)

SpecIndex == Init /\ [][NextIndex]_vars

(***************************************************************************)
(* Caching: one corpus file changes, facades of every configuration index  *)
(* it and run caching passes.                                              *)
(***************************************************************************)
\* the fusion weights play no part in indexing and caching
CacheConfigs ==
    {c \in Configs : c.keyword_weight = DefaultConfig.keyword_weight}

NextCache ==
    \/ MakeDocsDir
    \/ \E text \in CorpusTexts : WriteFile("a.md", text)
    \/ \E c \in CacheConfigs : EnsureIndex(c)
    \/ \E c \in CacheConfigs : EnsureEmbeddingsCached(c)

SpecCache == Init /\ [][NextCache]_vars

(***************************************************************************)
(* Batches: both corpus files change, facades with semantic retrieval on   *)
(* index them and run caching passes of more than one batch.               *)
(***************************************************************************)
BatchConfigs ==
    {SemanticConfig("m1"), [SemanticConfig("m1") EXCEPT !.http = FALSE]}

NextBatch ==
    \/ MakeDocsDir
    \/ \E f \in Files, text \in CorpusTexts : WriteFile(f, text)
    \/ \E c \in BatchConfigs : EnsureIndex(c)
    \/ \E c \in BatchConfigs : EnsureEmbeddingsCached(c)

SpecBatch == Init /\ [][NextBatch]_vars

(***************************************************************************)
(* Retrieval: facades of every configuration query the store.              *)
(***************************************************************************)
\* The caller is single-threaded and synchronous: what a call returned is
\* held until the caller drops it, and nothing else happens in between.
Settled == op = EnvOp

NextRetrieve ==
    \/ Settled /\ MakeDocsDir
    \/ Settled /\ \E text \in CorpusTexts : WriteFile("a.md", text)
    \/ Settled /\ \E c \in {DefaultConfig, SemanticConfig("m1")} : EnsureIndex(c)
    \/ Settled /\ \E c \in Configs, q \in Queries : Retrieve(c, q)
    \/ DropResult

SpecRetrieve == Init /\ [][NextRetrieve]_vars

(***************************************************************************)
(* Ranking: the corpus files change, facades query the store with a        *)
(* top_k of their choice.                                                  *)
(***************************************************************************)
\* values of top_k: none, fewer than the candidates, more than them
TopKs == {0, 2, DefaultTopK}

RankQueries ==
    { [is_none |-> FALSE, str |-> <<"y">>],
      [is_none |-> FALSE, str |-> <<"x", "!", "y">>] }

NextRank ==
    \/ Settled /\ MakeDocsDir
    \/ Settled /\ \E text \in CorpusTexts : WriteFile("a.md", text)
    \/ Settled /\ WriteFile("b.md", <<"x">>)
    \/ Settled /\ EnsureIndex(DefaultConfig)
    \/ Settled /\ \E c \in {DefaultConfig, SemanticConfig("m1")},
                      q \in RankQueries, k \in TopKs :
                      RetrieveWith(c, q, [DefaultParams EXCEPT !.top_k = k])
    \/ DropResult

SpecRank == Init /\ [][NextRank]_vars

(***************************************************************************)
(* Vanished files: a corpus file is written, deleted or renamed to b.md;   *)
(* a keyword-only facade indexes and queries.                              *)
(***************************************************************************)
NextStale ==
    \/ Settled /\ MakeDocsDir
    \/ Settled /\ \E text \in CorpusTexts : WriteFile("a.md", text)
    \/ Settled /\ DeleteFile("a.md")
    \/ Settled /\ WriteFile("b.md", <<"x">>)
    \/ Settled /\ EnsureIndex(DefaultConfig)
    \/ Settled /\ \E q \in RankQueries : Retrieve(DefaultConfig, q)
    \/ DropResult

SpecStale == Init /\ [][NextStale]_vars

(***************************************************************************)
(* Lexical search: a keyword-only facade is handed short queries and       *)
(* queries of about MaxTerms words.                                        *)
(***************************************************************************)
\* "x!x!...!x!last": n words, the first n - 1 of them "x"
RECURSIVE LongQuery(_, _)
LongQuery(n, last) ==
    IF n <= 1 THEN <<last>> ELSE <<"x", "!">> \o LongQuery(n - 1, last)

LexQueries ==
    Queries \cup
    { [is_none |-> FALSE, str |-> LongQuery(n, last)]
      : n \in (MaxTerms - 1)..(MaxTerms + 1), last \in WordLexemes }

NextLexical ==
    \/ Settled /\ MakeDocsDir
    \/ Settled /\ \E text \in CorpusTexts : WriteFile("a.md", text)
    \/ Settled /\ EnsureIndex(DefaultConfig)
    \/ Settled /\ \E q \in LexQueries : Retrieve(DefaultConfig, q)
    \/ DropResult

SpecLexical == Init /\ [][NextLexical]_vars

(***************************************************************************)
(* Direct calls of format_context.                                         *)
(***************************************************************************)
MaxHits == 6        \* most hits handed to format_context

\* lengths of the stripped bodies: empty, short, longer than any budget
BodyLens == {0, 300, 5000}

\* values of max_chars: no room for one header, room for one short entry,
\* room for a cut entry, the default
Budgets == {0, 40, 250, 700, DefaultMaxChars}

\* lengths of the section titles: "A", "Introduction"
TitleLens == {1, 12}

RECURSIVE IntSeqsUpTo(_, _)
IntSeqsUpTo(S, n) ==
    IF n = 0 THEN {<<>>}
    ELSE LET shorter == IntSeqsUpTo(S, n - 1)
         IN  shorter \cup {Append(q, l) : q \in {r \in shorter : Len(r) = n - 1},
                                          l \in S}

\* the header lengths of hits of one file, one section title and scores
\* printed with one digit before the point
HeadersFor(n, title_len) == [i \in 1..n |-> HeaderLen(i, 4, title_len, 4)]

FormatCalls ==
    { [fn |-> "format_context", header_lens |-> HeadersFor(Len(bodies), t),
       body_lens |-> bodies, max_chars |-> n]
      : bodies \in IntSeqsUpTo(BodyLens, MaxHits), t \in TitleLens,
        n \in Budgets }

InitFormat ==
    /\ InitProject
    /\ ~docs_dir_exists
    /\ call \in FormatCalls
    /\ result = NoResult

\* format_context(hits, max_chars) is called and returns
ApplyFormat ==
    /\ call.fn = "format_context"
    /\ ~result.done
    /\ result' = [done |-> TRUE,
                  value |-> format_context(call.header_lens, call.body_lens,
                                           call.max_chars)]
    /\ UNCHANGED <<fsVars, now, storeVars, op, ret, call>>

NextFormat == ApplyFormat

SpecFormat == InitFormat /\ [][NextFormat]_vars

(***************************************************************************)
(* Direct calls of the two normalisers.                                    *)
(***************************************************************************)
MaxKeys == 3        \* most chunk ids in a raw score map

\* raw scores: negative BM25 values and cosine similarities
RawScores == {RInt(-3), RInt(-1), RZero, Rat(3, 5), ROne}

\* the dicts with keys among 1..MaxKeys
ScoreMaps ==
    UNION {[keys -> RawScores] : keys \in SUBSET (1..MaxKeys)}

NormalizeCalls ==
    [fn : {"normalize_bm25", "normalize_01"}, scores : ScoreMaps]

InitNormalize ==
    /\ InitProject
    /\ ~docs_dir_exists
    /\ call \in NormalizeCalls
    /\ result = NoResult

\* _normalize_bm25(scores) is called and returns
ApplyNormalizeBm25 ==
    /\ call.fn = "normalize_bm25"
    /\ ~result.done
    /\ result' = [done |-> TRUE, value |-> normalize_bm25(call.scores)]
    /\ UNCHANGED <<fsVars, now, storeVars, op, ret, call>>

\* _normalize_01(scores) is called and returns
ApplyNormalize01 ==
    /\ call.fn = "normalize_01"
    /\ ~result.done
    /\ result' = [done |-> TRUE, value |-> normalize_01(call.scores)]
    /\ UNCHANGED <<fsVars, now, storeVars, op, ret, call>>

NextNormalize == ApplyNormalizeBm25 \/ ApplyNormalize01

SpecNormalize == InitNormalize /\ [][NextNormalize]_vars

(***************************************************************************)
(* Direct calls of the chunker.                                            *)
(***************************************************************************)
MaxLines == 3       \* most lines of a text handed to the chunker

RECURSIVE TextsUpTo(_)
TextsUpTo(n) ==
    IF n = 0 THEN {<<>>}
    ELSE LET shorter == TextsUpTo(n - 1)
         IN  shorter \cup {Append(t, l) : t \in {r \in shorter : Len(r) = n - 1},
                                          l \in Lines}

ChunkCalls ==
    [fn : {"chunk_markdown_by_h2"}, content : TextsUpTo(MaxLines),
     filename : Files]

InitChunk ==
    /\ InitProject
    /\ ~docs_dir_exists
    /\ call \in ChunkCalls
    /\ result = NoResult

\* chunk_markdown_by_h2(content, filename) is called and returns
ApplyChunk ==
    /\ call.fn = "chunk_markdown_by_h2"
    /\ ~result.done
    /\ result' = [done |-> TRUE,
                  value |-> chunk_markdown_by_h2(call.content, call.filename)]
    /\ UNCHANGED <<fsVars, now, storeVars, op, ret, call>>

NextChunk == ApplyChunk

SpecChunk == InitChunk /\ [][NextChunk]_vars

(***************************************************************************)
(* Properties.                                                             *)
(***************************************************************************)
TypeOK ==
    /\ docs_dir_exists \in BOOLEAN
    /\ \A f \in Files : files[f] \in FileStates
    /\ now \in 0..MaxTime
    /\ seq \in 0..MaxId
    /\ \A r \in rag_chunks : r.id \in 1..seq

ChunksOf(chunks, f) == {r \in chunks : r.source_file = f}

SourcesOf(sources, f) == {r \in sources : r.source_file = f}

ChunkIds(chunks) == {r.id : r \in chunks}

\* every provider call of the operation returned one non-empty vector per
\* text sent
FullyAnswered(o) ==
    \A i \in 1..Len(o.calls) :
        /\ o.calls[i].ok
        /\ Len(o.calls[i].vectors) = Len(o.calls[i].texts)
        /\ \A j \in 1..Len(o.calls[i].vectors) : o.calls[i].vectors[j] # <<>>

\* the step is a second ensure_index() of the same facade right after a
\* first one, nothing having happened in between
SecondEnsureIndex ==
    /\ op.name = "ensure_index"
    /\ op'.name = "ensure_index"
    /\ op'.cfg = op.cfg

Untouched(f) ==
    /\ files[f].present
    /\ \E r \in rag_sources :
          r.source_file = f /\ r.file_hash = Sha256Text(files[f].text)

\* the document has been indexed and its readable text has changed since
Modified(g) ==
    /\ files[g].present
    /\ files[g].text # Unreadable
    /\ \E r \in rag_sources : r.source_file = g
    /\ ~Untouched(g)

\* C2: an ensure_index() after documents were modified replaces only the
\* chunk rows of the modified documents: every chunk row of an untouched
\* document stays as it was (identifier, content, fingerprint), untouched
\* source records keep fingerprint and timestamp, and every row the modified
\* document has afterwards is a fresh one.
EnsureIndexFrame ==
    [][op'.name = "ensure_index" =>
          /\ \A f \in Files : Untouched(f) =>
                /\ ChunksOf(rag_chunks', f) = ChunksOf(rag_chunks, f)
                /\ SourcesOf(rag_sources', f) = SourcesOf(rag_sources, f)
          /\ \A g \in Files : Modified(g) =>
                /\ ChunksOf(rag_chunks', g) # {}
                /\ \A r \in ChunksOf(rag_chunks', g) : r.id > seq]_vars

\* ensure_index() has re-indexed one document at time 1, replacing rows, and
\* left the rows and the source record that another document got at time 0
OneDocReindexed ==
    /\ op.name = "ensure_index"
    /\ now = 1
    /\ seq > Cardinality(rag_chunks)
    /\ \E f, g \in Files :
          /\ f # g
          /\ Untouched(f) /\ Untouched(g)
          /\ ChunksOf(rag_chunks, f) # {}
          /\ \A r \in ChunksOf(rag_chunks, f) \cup SourcesOf(rag_sources, f) :
                r.indexed_at = 0
          /\ ChunksOf(rag_chunks, g) # {}
          /\ \A r \in ChunksOf(rag_chunks, g) \cup SourcesOf(rag_sources, g) :
                r.indexed_at = 1
          /\ \E r \in ChunksOf(rag_chunks, f), q \in ChunksOf(rag_chunks, g) :
                r.id < q.id

\* the chunk rows of a file in identifier order
RowsInOrder(chunks, f) ==
    LET ids == SortedSeq(ChunkIds(ChunksOf(chunks, f)))
    IN  [i \in 1..Len(ids) |-> CHOOSE r \in chunks : r.id = ids[i]]

AllReadable == \A f \in Files : files[f].present => files[f].text # Unreadable

\* C3: after ensure_index() over a corpus of readable files, the chunk rows
\* of every file of the corpus are the chunker's output for the file's
\* current text: as many rows as chunks, each once, in document order, with
\* the chunk's content and its fingerprint, and nothing of an older version.
IndexMatchesCorpus ==
    (op.name = "ensure_index" /\ AllReadable) =>
        /\ \A r1, r2 \in rag_chunks : r1.id = r2.id => r1 = r2
        /\ \A f \in Files : files[f].present =>
              LET rows == RowsInOrder(rag_chunks, f)
                  out == chunk_markdown_by_h2(files[f].text, f)
              IN  /\ Len(rows) = Len(out)
                  /\ \A i \in 1..Len(rows) :
                        /\ rows[i].content = out[i].content
                        /\ rows[i].content_hash = Sha256Text(out[i].content)

\* ensure_index() has run over a two-section file whose earlier version had
\* been indexed before
EditedFileIndexed ==
    /\ op.name = "ensure_index"
    /\ AllReadable
    /\ \E f \in Files :
          /\ files[f].present
          /\ Len(chunk_markdown_by_h2(files[f].text, f)) = 2
          /\ Cardinality(ChunksOf(rag_chunks, f)) = 2
          /\ \A r \in ChunksOf(rag_chunks, f) : r.id > 2

\* C4: format_context(hits, max_chars = N) returns a string of at most N
\* characters, for every list of hits and every N.
FormatWithinBudget ==
    (result.done /\ call.fn = "format_context") =>
        result.value.len <= call.max_chars

\* C6: for a non-empty raw score map each normaliser returns a value in
\* [0, 1] for every key of the input and for no other key; the best raw
\* score (the most negative one for _normalize_bm25, the highest one for
\* _normalize_01) maps to 1; when all raw scores are equal every key gets 1.
NormalizedInUnitRange ==
    (result.done /\ call.fn \in {"normalize_bm25", "normalize_01"}
                 /\ DOMAIN call.scores # {}) =>
        LET s == call.scores
            out == result.value
            Best(k) == IF call.fn = "normalize_bm25"
                       THEN \A j \in DOMAIN s : RLe(s[k], s[j])
                       ELSE \A j \in DOMAIN s : RLe(s[j], s[k])
        IN  /\ DOMAIN out = DOMAIN s
            /\ \A k \in DOMAIN s : RLe(RZero, out[k]) /\ RLe(out[k], ROne)
            /\ \A k \in DOMAIN s : Best(k) => out[k] = ROne
            /\ (\A j, k \in DOMAIN s : s[j] = s[k]) =>
                  \A k \in DOMAIN s : out[k] = ROne

\* _normalize_bm25 has returned for three candidates with three different
\* raw scores: one gets 1, one gets 0, one a value in between
Bm25ThreeNormalized ==
    /\ result.done
    /\ call.fn = "normalize_bm25"
    /\ Cardinality(DOMAIN call.scores) = 3
    /\ Cardinality({call.scores[k] : k \in DOMAIN call.scores}) = 3
    /\ \E k \in DOMAIN call.scores :
          RLt(RZero, result.value[k]) /\ RLt(result.value[k], ROne)

\* the query argument is None, empty or made of whitespace only
BlankQuery(q) == q.is_none \/ \A i \in 1..Len(q.str) : q.str[i] = Blank

\* C5: when the semantic signal has no candidate, every hit retrieve()
\* returns has its normalised lexical score as final score, whatever the
\* weights; when only the semantic signal has candidates, every hit has its
\* normalised semantic score as final score.
SingleSignalScore ==
    (op.name = "retrieve" /\ ret.returned) =>
        LET bm25_norm == normalize_bm25(ret.bm25_hits)
            sem_norm == normalize_01(ret.semantic_hits)
        IN  /\ DOMAIN ret.semantic_hits = {} =>
                  \A i \in 1..Len(ret.hits) :
                      /\ ret.hits[i].chunk_id \in DOMAIN bm25_norm
                      /\ ret.hits[i].final_score =
                            bm25_norm[ret.hits[i].chunk_id]
            /\ (DOMAIN ret.bm25_hits = {} /\ DOMAIN ret.semantic_hits # {}) =>
                  \A i \in 1..Len(ret.hits) :
                      /\ ret.hits[i].chunk_id \in DOMAIN sem_norm
                      /\ ret.hits[i].final_score =
                            sem_norm[ret.hits[i].chunk_id]

\* a facade with semantic retrieval on and non-default weights has returned
\* two lexical hits of different scores, the semantic signal having none
LexicalOnlyHits ==
    /\ op.name = "retrieve"
    /\ ret.returned
    /\ op.cfg.enable_semantic /\ op.cfg.api_key /\ op.cfg.http
    /\ op.cfg.keyword_weight # DefaultConfig.keyword_weight
    /\ DOMAIN ret.semantic_hits = {}
    /\ Len(ret.hits) = 2
    /\ ret.hits[1].final_score # ret.hits[2].final_score

\* a caching pass that went through every batch, the provider returning one
\* non-empty vector per text every time
CachePassAnswered(o) ==
    /\ o.name \in {"ensure_index", "ensure_embeddings_cached"}
    /\ o.pass = "complete"
    /\ FullyAnswered(o)

\* C7: after a caching pass that the provider answered in full, a further
\* caching pass over the same chunks with the same configured model makes no
\* provider call.
SecondPassCallsNothing ==
    [][(/\ CachePassAnswered(op)
        /\ op'.name \in {"ensure_index", "ensure_embeddings_cached"}
        /\ op'.cfg.embedding_model = op.cfg.embedding_model
        /\ rag_chunks' = rag_chunks) => op'.calls = <<>>]_vars

\* a second caching pass in a row of a facade with every capability has found
\* both chunks embedded for its model and called nothing
SecondPassOverCache ==
    /\ op.name = "ensure_embeddings_cached"
    /\ op.again
    /\ op.cfg.enable_semantic /\ op.cfg.api_key /\ op.cfg.http
    /\ op.pass = "complete"
    /\ op.calls = <<>>
    /\ Cardinality(rag_chunks) = 2
    /\ \A r \in rag_chunks : \E e \in rag_embeddings :
          /\ e.chunk_id = r.id
          /\ e.model = op.cfg.embedding_model
          /\ e.content_hash = r.content_hash

\* C8: a caching pass that follows a re-indexing sends to the provider no
\* chunk whose content was in the index before, under the same file, with a
\* valid embedding for the model.
OnlyChangedChunksSent ==
    [][op'.name \in {"ensure_index", "ensure_embeddings_cached"} =>
          \A i \in 1..Len(op'.calls) :
              \A j \in 1..Len(op'.calls[i].ids) :
                  \A c \in rag_chunks' : c.id = op'.calls[i].ids[j] =>
                      ~\E r \in rag_chunks, e \in rag_embeddings :
                          /\ r.source_file = c.source_file
                          /\ r.content_hash = c.content_hash
                          /\ e.chunk_id = r.id
                          /\ e.model = op'.cfg.embedding_model
                          /\ e.content_hash = r.content_hash]_vars

\* C9: retrieve() with a non-empty query returns a (context, hits) pair
\* instead of raising, in every state of the store and for every outcome of
\* the lexical index and of the provider.
RetrieveNeverRaises ==
    (op.name = "retrieve" /\ ~BlankQuery(op.query)) =>
        (ret.returned /\ ~op.raised)

\* C10: retrieve() with a None, empty or whitespace-only query returns the
\* empty context and no hit, leaves the store as it is (not even created),
\* does not run ensure_index() and does not call the provider.
BlankQueryTouchesNothing ==
    [][(op'.name = "retrieve" /\ BlankQuery(op'.query)) =>
          /\ UNCHANGED storeVars
          /\ ret'.returned
          /\ ret'.context = EmptyContext
          /\ ret'.hits = <<>>
          /\ op'.calls = <<>>
          /\ ~op'.opened
          /\ ~op'.ensured
          /\ ~op'.raised]_vars

\* a facade with semantic retrieval on has been handed a whitespace-only
\* query while the corpus had a file and the store did not exist yet
BlankQueryBeforeStore ==
    /\ op.name = "retrieve"
    /\ ~op.query.is_none
    /\ op.query.str = <<Blank>>
    /\ op.cfg.enable_semantic /\ op.cfg.api_key /\ op.cfg.http
    /\ files["a.md"].present
    /\ ~db_exists
    /\ ret.returned

\* C11: for a non-empty document without a second-level heading the chunker
\* returns exactly one chunk, covering the whole document, with section
\* title "Full".
NoHeadingDocIsFull ==
    (/\ result.done
     /\ call.fn = "chunk_markdown_by_h2"
     /\ StripLines(call.content) # <<>>
     /\ \A i \in 1..Len(call.content) : call.content[i] \notin H2Lines) =>
        /\ Len(result.value) = 1
        /\ result.value[1].content =
              ChunkContent(call.filename,
                           DocTitle(call.content, call.filename),
                           call.content)
        /\ result.value[1].section_title = "Full"

\* C12: after any sequence of corpus edits and ensure_index() calls the
\* identifiers searchable in the lexical index are the identifiers of the
\* chunk table, each entry holding the text of its chunk row.
FtsInSync ==
    /\ {e.rowid : e \in rag_chunks_fts} = ChunkIds(rag_chunks)
    /\ \A e \in rag_chunks_fts : \E r \in rag_chunks :
          /\ r.id = e.rowid
          /\ r.content = e.content
          /\ r.source_file = e.source_file
    /\ Cardinality(rag_chunks_fts) = Cardinality(rag_chunks)

\* ensure_index() has replaced the rows of a file: rows were deleted and the
\* index holds entries of both files
FtsAfterReplacement ==
    /\ op.name = "ensure_index"
    /\ seq > Cardinality(rag_chunks)
    /\ \A f \in Files : \E e \in rag_chunks_fts : e.source_file = f

\* C13: a chunk identifier once assigned is never assigned to another row:
\* in every step the sequence does not decrease, a row that carries an
\* identifier up to the old sequence value is a row that was there before,
\* unchanged, and no row carries an identifier above the sequence.
ChunkIdsNeverReused ==
    [][/\ seq' >= seq
       /\ \A r \in rag_chunks' : r.id <= seq => r \in rag_chunks
       /\ \A r \in rag_chunks' : r.id <= seq']_vars

\* ensure_index() has re-indexed the only indexed file: identifier 1 is
\* gone for good and the newest row carries the sequence value
FirstIdRetired ==
    /\ op.name = "ensure_index"
    /\ rag_chunks # {}
    /\ 1 \notin ChunkIds(rag_chunks)
    /\ seq \in ChunkIds(rag_chunks)
    /\ Cardinality(rag_sources) = 1

\* C14: a caching pass that stops at a failed provider call does not raise;
\* every vector the earlier calls returned is stored under its chunk; every
\* chunk outside the earlier batches has the embedding rows it had before
\* the pass, and the chunks of the failed batch are still pending.
AbortedPassKeepsBatches ==
    [][(/\ op'.name \in {"ensure_index", "ensure_embeddings_cached"}
        /\ op'.pass = "aborted") =>
          LET calls == op'.calls
              m == op'.cfg.embedding_model
              answered == {i \in 1..Len(calls) : calls[i].ok}
              done == UNION {{calls[i].ids[j] : j \in 1..Len(calls[i].ids)}
                             : i \in answered}
          IN  /\ ~op'.raised
              /\ \A i \in answered :
                    \A j \in 1..Min2(Len(calls[i].ids), Len(calls[i].vectors)) :
                        calls[i].vectors[j] # <<>> =>
                            \E e \in rag_embeddings', r \in rag_chunks' :
                                /\ r.id = calls[i].ids[j]
                                /\ e.chunk_id = r.id
                                /\ e.model = m
                                /\ e.content_hash = r.content_hash
                                /\ unpack_f32(e.embedding, e.dim) =
                                      calls[i].vectors[j]
              /\ \A r \in rag_chunks' : r.id \notin done =>
                    {e \in rag_embeddings' : e.chunk_id = r.id}
                        = {e \in rag_embeddings : e.chunk_id = r.id}
              /\ \A i \in 1..Len(calls) : ~calls[i].ok =>
                    \A j \in 1..Len(calls[i].ids) :
                        \A r \in rag_chunks' : r.id = calls[i].ids[j] =>
                            ~\E e \in rag_embeddings' :
                                /\ e.chunk_id = r.id
                                /\ e.model = m
                                /\ e.content_hash = r.content_hash]_vars

\* a caching pass has stopped at its second batch: the chunks of the first
\* batch are embedded, those of the second are not
AbortedAtSecondBatch ==
    /\ op.name \in {"ensure_index", "ensure_embeddings_cached"}
    /\ op.pass = "aborted"
    /\ Len(op.calls) = 2
    /\ op.calls[1].ok
    /\ ~op.calls[2].ok
    /\ \E e \in rag_embeddings : e.chunk_id = op.calls[1].ids[1]
    /\ ~\E e \in rag_embeddings : e.chunk_id = op.calls[2].ids[1]

\* C15: every hit retrieve() returns carries the raw lexical score and the
\* raw cosine similarity of its chunk in bm25_score and semantic_score, and
\* the fused score in final_score.
HitsCarryRawScores ==
    (op.name = "retrieve" /\ ret.returned) =>
        \A i \in 1..Len(ret.hits) :
            LET h == ret.hits[i]
            IN  /\ h.bm25_score = GetOr0(ret.bm25_hits, h.chunk_id)
                /\ h.semantic_score = GetOr0(ret.semantic_hits, h.chunk_id)
                /\ h.final_score =
                      FinalScore(normalize_bm25(ret.bm25_hits),
                                 normalize_01(ret.semantic_hits), h.chunk_id,
                                 op.cfg.keyword_weight, op.cfg.semantic_weight)

\* the chunk rows retrieve() fetched: the rows of the candidates of either
\* signal, with the final score each gets
Candidates ==
    {r \in rag_chunks : r.id \in DOMAIN ret.bm25_hits
                                    \cup DOMAIN ret.semantic_hits}

CandidateScore(r) ==
    FinalScore(normalize_bm25(ret.bm25_hits), normalize_01(ret.semantic_hits),
               r.id, op.cfg.keyword_weight, op.cfg.semantic_weight)

\* C16: for top_k >= 0 retrieve() returns at most top_k hits, each a fetched
\* candidate, in non-increasing order of final score; no candidate left out
\* has a strictly higher final score than a returned hit; hits of equal
\* final score come in the order their rows were fetched (by identifier).
TopKRanked ==
    (op.name = "retrieve" /\ ret.returned /\ op.params.top_k >= 0) =>
        LET hits == ret.hits
            returned == {hits[i].chunk_id : i \in 1..Len(hits)}
        IN  /\ Len(hits) <= op.params.top_k
            /\ Len(hits) = Min2(op.params.top_k, Cardinality(Candidates))
            /\ \A i \in 1..Len(hits) : \E r \in Candidates :
                  /\ r.id = hits[i].chunk_id
                  /\ CandidateScore(r) = hits[i].final_score
            /\ \A i, j \in 1..Len(hits) : i < j =>
                  /\ hits[i].chunk_id # hits[j].chunk_id
                  /\ RLe(hits[j].final_score, hits[i].final_score)
                  /\ hits[i].final_score = hits[j].final_score =>
                        hits[i].chunk_id < hits[j].chunk_id
            /\ \A r \in Candidates : r.id \notin returned =>
                  \A i \in 1..Len(hits) :
                      ~RLt(hits[i].final_score, CandidateScore(r))

\* retrieve(top_k=2) has cut three candidates down to two hits, the better
\* of which was fetched after the other, leaving out one that ties with the
\* second hit
TopTwoOfThree ==
    /\ op.name = "retrieve"
    /\ ret.returned
    /\ op.params.top_k = 2
    /\ Cardinality(Candidates) = 3
    /\ Len(ret.hits) = 2
    /\ ret.hits[1].chunk_id > ret.hits[2].chunk_id
    /\ \E r \in Candidates :
          /\ r.id \notin {ret.hits[1].chunk_id, ret.hits[2].chunk_id}
          /\ CandidateScore(r) = ret.hits[2].final_score

\* the file is in the corpus directory and cannot be read
IsUnreadable(f) == files[f].present /\ files[f].text = Unreadable

\* C17: an ensure_index() over a corpus with an unreadable file raises
\* nothing, leaves the chunk rows and the source record stored for that file
\* as they were, and indexes every readable file of the corpus: its rows
\* afterwards are the chunks of its current text.
UnreadableFileSkipped ==
    [][(op'.name = "ensure_index" /\ \E f \in Files : IsUnreadable(f)) =>
          /\ ~op'.raised
          /\ \A f \in Files : IsUnreadable(f) =>
                /\ ChunksOf(rag_chunks', f) = ChunksOf(rag_chunks, f)
                /\ SourcesOf(rag_sources', f) = SourcesOf(rag_sources, f)
          /\ \A g \in Files : (files[g].present /\ ~IsUnreadable(g)) =>
                LET rows == RowsInOrder(rag_chunks', g)
                    out == chunk_markdown_by_h2(files[g].text, g)
                IN  /\ Len(rows) = Len(out)
                    /\ \A i \in 1..Len(rows) : rows[i].content = out[i].content
                    /\ \E r \in rag_sources' :
                          /\ r.source_file = g
                          /\ r.file_hash = Sha256Text(files[g].text)]_vars

\* ensure_index() at time 1 has passed over the unreadable a.md, whose rows
\* of time 0 are still there, and has indexed b.md, the file after it
SkippedThenIndexed ==
    /\ op.name = "ensure_index"
    /\ now = 1
    /\ IsUnreadable("a.md")
    /\ ChunksOf(rag_chunks, "a.md") # {}
    /\ \A r \in ChunksOf(rag_chunks, "a.md") \cup SourcesOf(rag_sources, "a.md") :
          r.indexed_at = 0
    /\ Untouched("b.md")
    /\ ChunksOf(rag_chunks, "b.md") # {}
    /\ \A r \in ChunksOf(rag_chunks, "b.md") \cup SourcesOf(rag_sources, "b.md") :
          r.indexed_at = 1

\* the chunk row holds a word of the query (a query of single-letter words)
HoldsQueryWord(r, q) ==
    \E i \in 1..Len(r.content), j \in 1..Len(q.str) :
        q.str[j] \in WordLexemes /\ r.content[i] = q.str[j]

\* C18: ensure_index() leaves what is stored under the name of a file that
\* is no longer in the corpus directory (chunk rows, lexical entries, source
\* record) in place, and retrieve() still returns the rows of the vanished
\* file that hold a word of the query.
VanishedFileStays ==
    [][/\ op'.name = "ensure_index" =>
            \A f \in Files : ~files[f].present =>
                /\ ChunksOf(rag_chunks', f) = ChunksOf(rag_chunks, f)
                /\ SourcesOf(rag_sources', f) = SourcesOf(rag_sources, f)
                /\ {e \in rag_chunks_fts' : e.source_file = f}
                      = {e \in rag_chunks_fts : e.source_file = f}
       /\ (op'.name = "retrieve" /\ ret'.returned) =>
            \A r \in rag_chunks' :
                (~files[r.source_file].present /\ HoldsQueryWord(r, op'.query))
                    => \E i \in 1..Len(ret'.hits) :
                          /\ ret'.hits[i].chunk_id = r.id
                          /\ ret'.hits[i].source_file = r.source_file]_vars

\* after a.md was renamed to b.md and the corpus re-indexed, retrieve() has
\* returned a hit from a.md beside one from b.md
HitFromVanishedFile ==
    /\ op.name = "retrieve"
    /\ ret.returned
    /\ ~files["a.md"].present
    /\ files["b.md"].present
    /\ \E r \in rag_sources : r.source_file = "a.md"
    /\ \E i, j \in 1..Len(ret.hits) :
          /\ ret.hits[i].source_file = "a.md"
          /\ ret.hits[j].source_file = "b.md"
          /\ ret.hits[i].chunk_id < ret.hits[j].chunk_id

\* C19: with semantic retrieval on and a credential but no HTTP client, the
\* failure reaches the caller of ensure_index() over a corpus and of
\* retrieve() with a non-blank query.
MissingHttpIsFatal ==
    (/\ op.cfg.enable_semantic /\ op.cfg.api_key /\ ~op.cfg.http
     /\ \/ op.name = "ensure_index" /\ rag_chunks # {}
        \/ op.name = "retrieve" /\ ~BlankQuery(op.query)) => op.raised

\* semantic retrieval is on but cannot be had: no credential, no HTTP
\* client, or every call of the provider failed
SemanticUnavailable(o) ==
    /\ o.cfg.enable_semantic
    /\ \/ ~o.cfg.api_key
       \/ ~o.cfg.http
       \/ \A i \in 1..Len(o.calls) : ~o.calls[i].ok

\* C20: over an indexed store, retrieve() of a facade whose semantic
\* retrieval is on but unavailable returns what retrieve() of the same
\* facade with semantic retrieval off returns for the same query: the same
\* hits with the same scores and the same context.
UnavailableAsDisabled ==
    [][(op'.name = "retrieve" /\ has_tables /\ SemanticUnavailable(op')) =>
          \E r \in retrieve(op'.query, Store, docs_dir_exists, files,
                            [op'.cfg EXCEPT !.enable_semantic = FALSE],
                            now, op'.params) :
              /\ ~r.raised
              /\ ret'.returned
              /\ ret'.hits = r.hits
              /\ ret'.context = r.context]_vars

\* a facade with every capability has queried an indexed store holding
\* cached embeddings, the provider failed, and lexical hits came back
ProviderDownHits ==
    /\ op.name = "retrieve"
    /\ op.cfg.enable_semantic /\ op.cfg.api_key /\ op.cfg.http
    /\ ~op.ensured
    /\ op.calls # <<>>
    /\ \A i \in 1..Len(op.calls) : ~op.calls[i].ok
    /\ \E e \in rag_embeddings : e.model = op.cfg.embedding_model
    /\ ret.returned
    /\ Len(ret.hits) = 2
    /\ DOMAIN ret.semantic_hits = {}

\* C23: a query without a word, or one whose sanitised form the lexical
\* index rejects (an FTS5 keyword among the terms, or no index tables),
\* gives an empty lexical candidate set and retrieve() returns; any other
\* query is searched as the OR of its first 25 words at most: the lexical
\* candidates are the chunks holding one of those words.
LexicalSignalDegrades ==
    (op.name = "retrieve" /\ ~BlankQuery(op.query)) =>
        LET terms == FindTerms(Strip(op.query.str), <<>>)
            sent == SubSeq(terms, 1, Min2(25, Len(terms)))
        IN  /\ ret.returned
            /\ IF terms = <<>> \/ ~has_tables
                  \/ \E i \in 1..Len(sent) : sent[i] \in FtsKeywords
               THEN DOMAIN ret.bm25_hits = {}
               ELSE DOMAIN ret.bm25_hits =
                      {r.id : r \in {c \in rag_chunks :
                          \E i \in 1..Len(sent), j \in 1..Len(c.content) :
                              sent[i] = <<c.content[j]>>}}

\* a keyword-only facade has been handed "x OR" over an index where x
\* matches: the index rejected "x OR OR" and the call returned no hit
RejectedQueryReturned ==
    /\ op.name = "retrieve"
    /\ op.query.str = <<"x", Blank, "OR">>
    /\ has_tables
    /\ rag_chunks # {}
    /\ ret.returned
    /\ DOMAIN ret.bm25_hits = {}
    /\ ret.hits = <<>>

\* C24: every entry of the semantic map of a returned retrieve() is the
\* embedding of a chunk the store holds now, cached under that chunk's
\* current fingerprint and under the configured model; no embedding of a
\* deleted chunk is scored.
SemanticFromLiveChunks ==
    (op.name = "retrieve" /\ ret.returned) =>
        \A id \in DOMAIN ret.semantic_hits :
            \E r \in rag_chunks, e \in rag_embeddings :
                /\ r.id = id
                /\ e.chunk_id = id
                /\ e.content_hash = r.content_hash
                /\ e.model = op.cfg.embedding_model

\* the corpus directory without any file
NoFiles == [f \in Files |-> NoFile]

\* C25: a retrieve() issued while the store exists does not run
\* ensure_index() and leaves the chunk and source tables as they were;
\* its hits are rows of that chunk table, whatever the corpus holds now;
\* with semantic retrieval disabled it also leaves the embedding table as
\* it was, and returns the hits and context the same call gives over that
\* store with an empty corpus.
RetrieveOverExistingStore ==
    [][(op.name = "edit" /\ op'.name = "retrieve" /\ db_exists) =>
          /\ ~op'.ensured
          /\ UNCHANGED <<rag_chunks, rag_sources>>
          /\ \A i \in 1..Len(ret'.hits) :
                \E r \in rag_chunks :
                    /\ r.id = ret'.hits[i].chunk_id
                    /\ r.source_file = ret'.hits[i].source_file
                    /\ r.content = ret'.hits[i].content
          /\ ~op'.cfg.enable_semantic =>
                /\ UNCHANGED rag_embeddings
                /\ \E r \in retrieve(op'.query, Store, FALSE, NoFiles,
                                     op'.cfg, now, op'.params) :
                      /\ r.hits = ret'.hits
                      /\ r.context = ret'.context
                      /\ r.raised = ~ret'.returned]_vars

\* a.md was indexed with two sections and then replaced by a text without
\* a heading; a keyword-only retrieve() over the existing store did not
\* index and returned the two chunks of the old text
StaleHitsServed ==
    /\ op.name = "retrieve"
    /\ ~op.cfg.enable_semantic
    /\ ~op.ensured
    /\ ret.returned
    /\ files["a.md"] = [present |-> TRUE, text |-> <<"x">>]
    /\ \E r \in rag_sources :
          r.source_file = "a.md" /\ r.file_hash # Sha256Text(<<"x">>)
    /\ Len(ret.hits) = 2
    /\ \A i \in 1..2 : ret.hits[i].section_title \in {"A", "B"}

(***************************************************************************)
(* The lexical limit: a keyword-only facade queries an indexed corpus of   *)
(* two files with bm25_limit below, at and above the number of matches.    *)
(***************************************************************************)
Bm25Limits == {0, 1, 2, DefaultBm25Limit}

NextLimit ==
    \/ Settled /\ MakeDocsDir
    \/ Settled /\ \E text \in CorpusTexts : WriteFile("a.md", text)
    \/ Settled /\ WriteFile("b.md", <<"x">>)
    \/ Settled /\ EnsureIndex(DefaultConfig)
    \/ Settled /\ \E q \in RankQueries, n \in Bm25Limits :
                      RetrieveWith(DefaultConfig, q,
                                   [DefaultParams EXCEPT !.bm25_limit = n])
    \/ DropResult

SpecLimit == Init /\ [][NextLimit]_vars

\* the index entries matching the sanitised query of the last retrieve()
MatchingEntries ==
    {e \in rag_chunks_fts : FtsMatches(e, safe_fts_query(Strip(op.query.str)))}

\* C26: when more index entries match the sanitised query than bm25_limit,
\* the lexical candidate map holds bm25_limit of them and no matching entry
\* left out has a better (lower) bm25 score than one kept.
LexicalKeepsBest ==
    (/\ op.name = "retrieve"
     /\ ret.returned
     /\ op.params.bm25_limit >= 0
     /\ Cardinality(MatchingEntries) > op.params.bm25_limit) =>
        LET terms == safe_fts_query(Strip(op.query.str))
            kept == DOMAIN ret.bm25_hits
        IN  /\ Cardinality(kept) = op.params.bm25_limit
            /\ kept \subseteq {e.rowid : e \in MatchingEntries}
            /\ \A e \in MatchingEntries : e.rowid \notin kept =>
                  \A id \in kept :
                      RLe(ret.bm25_hits[id], RInt(Bm25(e, terms)))

\* C27: when the lexical and the semantic map of a returned retrieve() are
\* both non-empty, every hit's final score is keyword_weight times its
\* normalised lexical score plus semantic_weight times its normalised
\* semantic score, a signal the chunk is missing from counting 0; and every
\* stored chunk of either map is among the hits (top_k exceeds their
\* number).
BothSignalsBlend ==
    (/\ op.name = "retrieve"
     /\ ret.returned
     /\ DOMAIN ret.bm25_hits # {}
     /\ DOMAIN ret.semantic_hits # {}) =>
        LET bm25_norm == normalize_bm25(ret.bm25_hits)
            sem_norm == normalize_01(ret.semantic_hits)
            b(id) == IF id \in DOMAIN ret.bm25_hits THEN bm25_norm[id]
                     ELSE RZero
            s(id) == IF id \in DOMAIN ret.semantic_hits THEN sem_norm[id]
                     ELSE RZero
        IN  /\ \A i \in 1..Len(ret.hits) :
                  LET h == ret.hits[i]
                  IN  /\ h.bm25_score = b(h.chunk_id)
                      /\ h.semantic_score = s(h.chunk_id)
                      /\ h.final_score =
                            RAdd(RMul(op.cfg.keyword_weight, b(h.chunk_id)),
                                 RMul(op.cfg.semantic_weight, s(h.chunk_id)))
            /\ Cardinality(Candidates) <= op.params.top_k =>
                  \A r \in Candidates :
                      \E i \in 1..Len(ret.hits) : ret.hits[i].chunk_id = r.id

\* both maps are non-empty and a hit is a chunk of the lexical map only:
\* its final score is the keyword weight times 1, strictly between 0 and 1
LexicalOnlyChunkBlended ==
    /\ op.name = "retrieve"
    /\ ret.returned
    /\ DOMAIN ret.bm25_hits # {}
    /\ DOMAIN ret.semantic_hits # {}
    /\ \E i \in 1..Len(ret.hits) :
          /\ ret.hits[i].chunk_id \in DOMAIN ret.bm25_hits
          /\ ret.hits[i].chunk_id \notin DOMAIN ret.semantic_hits
          /\ ret.hits[i].bm25_score = ROne
          /\ ret.hits[i].final_score = op.cfg.keyword_weight
          /\ RLt(ret.hits[i].final_score, ROne)

\* characters used by the entries before entry i: header, newline, body,
\* newline for each
UsedBefore(parts, i) ==
    SumSeq([j \in 1..(i - 1) |-> parts[j].header + 1 + parts[j].body + 1])

\* C28: format_context emits the entries of a prefix of the hit list, in
\* order: entry i is emitted exactly when all earlier ones were and
\* max_chars - used - len(header_i) - 5 exceeds 200; the first hit failing
\* the test ends the output, so that the string is empty when the first one
\* fails; a body longer than that remaining space is emitted cut, body and
\* ellipsis together being exactly the remaining space, a shorter body is
\* emitted whole.
FormatEmitsPrefix ==
    (result.done /\ call.fn = "format_context") =>
        LET parts == result.value.parts
            n == Len(parts)
            Avail(i) == call.max_chars - UsedBefore(parts, i)
                            - call.header_lens[i] - 5
        IN  /\ n <= Len(call.header_lens)
            /\ \A i \in 1..n :
                  /\ parts[i].header = call.header_lens[i]
                  /\ Avail(i) > 200
                  /\ parts[i].cut = (call.body_lens[i] > Avail(i))
                  /\ parts[i].body = IF call.body_lens[i] > Avail(i)
                                     THEN Avail(i) ELSE call.body_lens[i]
            /\ n < Len(call.header_lens) => Avail(n + 1) <= 200
            /\ n = 0 => result.value.len = 0

\* of three hits the first two were emitted whole and the third was not;
\* or the first was emitted cut and the others were not
PrefixEmitted ==
    /\ result.done
    /\ call.fn = "format_context"
    /\ Len(call.header_lens) = 3
    /\ \/ /\ Len(result.value.parts) = 2
          /\ ~result.value.parts[1].cut
          /\ ~result.value.parts[2].cut
          /\ result.value.parts[2].body > 0
       \/ /\ Len(result.value.parts) = 1
          /\ result.value.parts[1].cut

\* the positions of the second-level heading lines of a text, in order
H2Positions(content) ==
    SortedSeq({i \in 1..Len(content) : content[i] \in H2Lines})

\* C29: for a document with k >= 1 second-level headings the chunker
\* returns, in document order, one chunk per heading, titled with the
\* heading's text and holding the lines from the heading up to the next
\* heading, preceded by one chunk titled "Introduction" exactly when a
\* non-blank line precedes the first heading; every chunk starts with the
\* line naming the file, then the line naming the document title (the first
\* top-level heading, else the filename), then a blank line.
HeadingsMakeChunks ==
    (/\ result.done
     /\ call.fn = "chunk_markdown_by_h2"
     /\ H2Positions(call.content) # <<>>) =>
        LET content == call.content
            at == H2Positions(content)
            k == Len(at)
            intro == \E j \in 1..(at[1] - 1) : content[j] # BlankLine
            d == IF intro THEN 1 ELSE 0
            chunks == result.value
            End(m) == IF m < k THEN at[m + 1] - 1 ELSE Len(content)
            title_line ==
                IF \E i \in 1..Len(content) : content[i] = "# T"
                THEN "# T"
                ELSE IF call.filename = "a.md" THEN "# a.md" ELSE "# b.md"
            from_line ==
                IF call.filename = "a.md" THEN "[From: a.md]"
                ELSE "[From: b.md]"
            Body(c) == SubSeq(c.content, 4, Len(c.content))
        IN  /\ Len(chunks) = k + d
            /\ \A i \in 1..Len(chunks) :
                  /\ Len(chunks[i].content) >= 4
                  /\ chunks[i].content[1] = from_line
                  /\ chunks[i].content[2] = title_line
                  /\ chunks[i].content[3] = BlankLine
            /\ intro =>
                  /\ chunks[1].section_title = "Introduction"
                  /\ Body(chunks[1]) =
                        StripLines(SubSeq(content, 1, at[1] - 1))
            /\ \A m \in 1..k :
                  /\ chunks[m + d].section_title
                        = (IF content[at[m]] = "## A" THEN "A" ELSE "B")
                  /\ Body(chunks[m + d]) =
                        StripLines(SubSeq(content, at[m], End(m)))

\* a three-line text with a body line before its heading gave an
\* "Introduction" chunk and one chunk for the heading
IntroductionThenSection ==
    /\ result.done
    /\ call.fn = "chunk_markdown_by_h2"
    /\ call.content = <<"x", "## A", "y">>
    /\ Len(result.value) = 2
    /\ result.value[1].section_title = "Introduction"
    /\ result.value[2].section_title = "A"
    /\ result.value[2].content[Len(result.value[2].content)] = "y"

\* C30: a retrieve() with a non-empty query issued while the store does
\* not exist leaves a store that exists and has its tables, the corpus
\* directory being there or not.
FirstRetrieveInitialisesStore ==
    (op.name = "retrieve" /\ op.ensured) => (db_exists /\ has_tables)

(***************************************************************************)
(* The indexing pass statement by statement.  _index_docs_incremental      *)
(* works on one connection: its reads see the committed store until its    *)
(* first DELETE opens the write transaction, from then on the              *)
(* transaction's own view; conn.commit() makes that view the committed     *)
(* store.  The variable call holds the passes in progress, storeVars the   *)
(* committed store.                                                        *)
(***************************************************************************)
\* sorted(self.docs_dir.glob("*.md"))
MdFiles(fs) == SelectSeq(FileOrder, LAMBDA f : fs[f].present)

\* a pass about to look at its first file; resumed says that it follows a
\* pass over the same corpus that was interrupted after it had written
NewPass(resumed) ==
    [pos |-> 1, stage |-> "select", j |-> 1, row_found |-> FALSE,
     writing |-> FALSE, txn |-> EmptyStore, resumed |-> resumed]

\* what the statements of a pass see
View(w, st) == IF w.writing THEN w.txn ELSE st

\* a pass deleting a file's rows only when its SELECT had found a source
\* record of the file
DeleteWhenRowSeen(row_found) == row_found

\* line 280: the DELETE is issued for every file that is (re-)indexed
MustDelete(row_found) == TRUE

\* the loop is over: only conn.commit() is left
AtEnd(w, fs) == w.pos > Len(MdFiles(fs))

\* one statement of the loop body, lines 264-306, over the committed store
\* st: the SELECT of the source record, the DELETE, one INSERT of a chunk,
\* the upsert of the source record
PassStep(w, st, fs, t) ==
    LET name == MdFiles(fs)[w.pos]
        f == fs[name]
        view == View(w, st)
        file_hash == Sha256Text(f.text)
        chunks == chunk_markdown_by_h2(f.text, name)
    IN  CASE w.stage = "select" ->
               IF f.text = Unreadable THEN [w EXCEPT !.pos = @ + 1]
               ELSE IF \E r \in view.sources :
                          r.source_file = name /\ r.file_hash = file_hash
                    THEN [w EXCEPT !.pos = @ + 1]
                    ELSE [w EXCEPT !.stage = "delete",
                                   !.row_found = \E r \in view.sources :
                                                     r.source_file = name]
          [] w.stage = "delete" ->
               [w EXCEPT !.writing = TRUE,
                         !.txn = IF MustDelete(w.row_found)
                                 THEN DeleteChunksOf(view, name) ELSE view,
                         !.stage = "insert", !.j = 1]
          [] w.stage = "insert" ->
               [w EXCEPT !.txn = InsertChunk(w.txn, name, chunks[w.j], t),
                         !.j = @ + 1,
                         !.stage = IF w.j = Len(chunks) THEN "source"
                                   ELSE "insert"]
          [] w.stage = "source" ->
               [w EXCEPT !.txn = UpsertSource(w.txn, name, file_hash, t),
                         !.pos = @ + 1, !.stage = "select"]

\* the next statement of the pass can be run: an INSERT needs a free id
\* within the bound
CanStep(w, fs) ==
    /\ ~AtEnd(w, fs)
    /\ w.stage = "insert" => w.txn.seq < MaxId

\* an interruption that leaves the writes of the open transaction in the
\* store
KeepPartial(st, w) == View(w, st)

\* the committed store after a pass is interrupted before conn.commit():
\* leaving the with block by an exception rolls the transaction back, and
\* SQLite rolls back the transaction of a dead process
Rollback(st, w) == st

Idle == call = NoCall

\* ensure_index() creates the schema, commits it and enters the pass
BeginPass ==
    /\ Idle
    /\ docs_dir_exists
    /\ SetStore(CreateSchema(Store))
    /\ call' = [fn |-> "ensure_index",
                w |-> NewPass(/\ result.done
                              /\ result.value = "interrupted"
                              /\ result.dirty
                              /\ result.files = files)]
    /\ UNCHANGED <<fsVars, now, op, ret, result>>

StepPass ==
    /\ call.fn = "ensure_index"
    /\ CanStep(call.w, files)
    /\ call' = [call EXCEPT !.w = PassStep(call.w, Store, files, now)]
    /\ UNCHANGED <<fsVars, now, storeVars, op, ret, result>>

\* conn.commit() and the return of ensure_index()
CommitPass ==
    /\ call.fn = "ensure_index"
    /\ AtEnd(call.w, files)
    /\ SetStore(View(call.w, Store))
    /\ call' = NoCall
    /\ result' = [done |-> TRUE, value |-> "committed",
                  dirty |-> call.w.writing, resumed |-> call.w.resumed,
                  files |-> files]
    /\ UNCHANGED <<fsVars, now, op, ret>>

\* the pass ends at any point before conn.commit()
InterruptPass ==
    /\ call.fn = "ensure_index"
    /\ SetStore(Rollback(Store, call.w))
    /\ call' = NoCall
    /\ result' = [done |-> TRUE, value |-> "interrupted",
                  dirty |-> call.w.writing, resumed |-> FALSE,
                  files |-> files]
    /\ UNCHANGED <<fsVars, now, op, ret>>

NextAtomic ==
    \/ Idle /\ MakeDocsDir
    \/ Idle /\ \E text \in CorpusTexts : WriteFile("a.md", text)
    \/ Idle /\ WriteFile("b.md", <<"x">>)
    \/ BeginPass
    \/ StepPass
    \/ CommitPass
    \/ InterruptPass

SpecAtomic == Init /\ [][NextAtomic]_vars

\* the chunk and source tables hold, for every file with a source record,
\* the chunks of the text that record fingerprints, and no chunk of a file
\* without a source record
SourcesMatchChunks(chunks, sources) ==
    \A f \in Files :
        LET rows == RowsInOrder(chunks, f)
        IN  IF SourcesOf(sources, f) = {} THEN rows = <<>>
            ELSE \A r \in SourcesOf(sources, f) :
                    LET out == chunk_markdown_by_h2(r.file_hash[2], f)
                    IN  /\ Len(rows) = Len(out)
                        /\ \A i \in 1..Len(rows) :
                              rows[i].content = out[i].content

\* C21: no statement of the indexing pass before its commit changes the
\* committed store, and a pass interrupted before its commit leaves the
\* committed store as it was before the pass; the committed store never
\* holds a file whose old chunks are gone while its new chunks or its new
\* source record are missing; and a pass that commits, after whatever
\* interrupted passes, leaves the store that one uninterrupted pass over
\* the store and the corpus gives.
InterruptedPassLeavesStore ==
    [][/\ call.fn = "ensure_index" =>
            /\ call'.fn = "ensure_index" => UNCHANGED storeVars
            /\ (call' = NoCall /\ result'.value = "interrupted") =>
                  UNCHANGED storeVars
            /\ (call' = NoCall /\ result'.value = "committed") =>
                  /\ rag_chunks' =
                        index_docs_incremental(Store, files, now).chunks
                  /\ rag_sources' =
                        index_docs_incremental(Store, files, now).sources
                  /\ rag_chunks_fts' =
                        index_docs_incremental(Store, files, now).fts
       /\ SourcesMatchChunks(rag_chunks', rag_sources')]_vars

\* a pass was interrupted after it had written, and the next pass over the
\* same corpus has re-indexed the files and committed
ResumedPassCommitted ==
    /\ Idle
    /\ result.done
    /\ result.value = "committed"
    /\ result.resumed
    /\ result.dirty
    /\ \A f \in Files : files[f].present /\ ChunksOf(rag_chunks, f) # {}

(***************************************************************************)
(* Two callers run ensure_index() at once over one store and one corpus,   *)
(* each on its own connection.  SQLite admits one write transaction at a   *)
(* time: a pass that reaches its first DELETE while the other pass has     *)
(* written and not yet committed waits.                                    *)
(***************************************************************************)
Callers == {1, 2}

\* the DELETE of caller i can take the write lock
LockFree(passes, i) ==
    passes[i].writing \/ \A k \in Callers \ {i} : ~passes[k].writing

\* both callers create the schema and enter their passes
BeginBoth ==
    /\ Idle
    /\ docs_dir_exists
    /\ SetStore(CreateSchema(Store))
    /\ call' = [fn |-> "ensure_index x2",
                w |-> [i \in Callers |-> NewPass(FALSE)],
                fin |-> [i \in Callers |-> FALSE],
                wrote |-> [i \in Callers |-> FALSE]]
    /\ UNCHANGED <<fsVars, now, op, ret, result>>

\* caller i runs its next statement
StepCaller(i) ==
    /\ call.fn = "ensure_index x2"
    /\ ~call.fin[i]
    /\ CanStep(call.w[i], files)
    /\ call.w[i].stage = "delete" => LockFree(call.w, i)
    /\ call' = [call EXCEPT !.w[i] = PassStep(call.w[i], Store, files, now)]
    /\ UNCHANGED <<fsVars, now, storeVars, op, ret, result>>

\* caller i commits and returns; the second return ends the episode
CommitCaller(i) ==
    /\ call.fn = "ensure_index x2"
    /\ ~call.fin[i]
    /\ AtEnd(call.w[i], files)
    /\ SetStore(View(call.w[i], Store))
    /\ LET wrote == [call.wrote EXCEPT ![i] = call.w[i].writing]
       IN  IF \A k \in Callers \ {i} : call.fin[k]
           THEN /\ call' = NoCall
                /\ result' = [done |-> TRUE, value |-> "both returned",
                              writers |-> {k \in Callers : wrote[k]},
                              files |-> files]
           ELSE /\ call' = [call EXCEPT !.fin[i] = TRUE, !.wrote = wrote,
                                        !.w[i].writing = FALSE]
                /\ UNCHANGED result
    /\ UNCHANGED <<fsVars, now, op, ret>>

NextConcurrent ==
    \/ Idle /\ MakeDocsDir
    \/ Idle /\ \E text \in CorpusTexts : WriteFile("a.md", text)
    \/ Idle /\ WriteFile("b.md", <<"x">>)
    \/ BeginBoth
    \/ \E i \in Callers : StepCaller(i)
    \/ \E i \in Callers : CommitCaller(i)

SpecConcurrent == Init /\ [][NextConcurrent]_vars

\* C22: once two concurrent ensure_index() calls over the same store and
\* corpus have both returned, every corpus file has exactly one set of
\* chunks in the store: the chunk rows of the file are the chunks of its
\* text, each once, and the lexical index holds one entry per row.
ConcurrentPassesNoDuplicates ==
    (/\ Idle
     /\ result.done
     /\ result.value = "both returned"
     /\ result.files = files) =>
        \A f \in Files : files[f].present =>
            LET rows == RowsInOrder(rag_chunks, f)
                out == chunk_markdown_by_h2(files[f].text, f)
            IN  /\ Len(rows) = Len(out)
                /\ \A i \in 1..Len(rows) : rows[i].content = out[i].content
                /\ {e.rowid : e \in {x \in rag_chunks_fts : x.source_file = f}}
                      = {r.id : r \in ChunksOf(rag_chunks, f)}
                /\ Cardinality({x \in rag_chunks_fts : x.source_file = f})
                      = Len(rows)

\* both callers have written: the second had read the source record of
\* a.md before the first committed, waited, and then replaced the rows the
\* first had committed
BothCallersWrote ==
    /\ Idle
    /\ result.done
    /\ result.value = "both returned"
    /\ result.files = files
    /\ result.writers = Callers
    /\ \A f \in Files : files[f].present
    /\ seq > Cardinality(rag_chunks)

====
